---- MODULE Spec2Model ----
(***************************************************************************)
(* Model of the result aggregation and orchestration layer of              *)
(* indra_network_search:                                                   *)
(*   - PathResultManager._build_paths (result_handler.py), the deadline    *)
(*     bounded consumption loop with adaptive pruning feedback;            *)
(*   - the non-path aggregators (shared interactors, subgraph, multi       *)
(*     interactors);                                                       *)
(*   - IndraNetworkSearchAPI.handle_query (search_api.py).                 *)
(*                                                                         *)
(* Four specifications share the module: SpecPath, SpecAgg, SpecHQ and     *)
(* SpecCall (single calls of the functions that hold no state).  Each      *)
(* leaves the variables of the others untouched.                           *)
(*                                                                         *)
(* Conventions.  An Optional[...] value is modelled as a set with at most  *)
(* one element: {} is None, {x} is the value x.  Beliefs are integers in   *)
(* percent.  The wall clock counts ticks of SecondsPerTick seconds.        *)
(***************************************************************************)
EXTENDS Integers, Sequences, FiniteSets, TLC

VARIABLES
    \* ---- the wall clock (datetime.utcnow()), in ticks
    now,
    \* ---- PathResultManager (SpecPath)
    cfg,            \* FilterOptions + timeout + reverse given to the manager
    pc,             \* position of get_results/_build_paths
    start_time,     \* ResultManager.start_time
    timed_out,      \* ResultManager.timed_out
    paths_built,    \* local of _build_paths
    prev_path,      \* local of _build_paths
    culled_nodes,   \* local of _build_paths
    paths,          \* PathResultManager.paths: node count -> list of Path
    n_pulls,        \* history: number of next()/send() calls on path_gen
    last_pull,      \* history: the latest pull (what was sent, what came)
    accepted,       \* history: raw candidates accepted, in order
    \* ---- non-path aggregators (SpecAgg)
    ag,
    \* ---- handle_query (SpecHQ)
    hq,
    \* ---- one call of a function of the translator or of pathfinding,
    \*      with its arguments and what it returned (SpecCall)
    call

vars == <<now, cfg, pc, start_time, timed_out, paths_built, prev_path,
          culled_nodes, paths, n_pulls, last_pull, accepted, ag, hq, call>>

pathVars == <<cfg, pc, start_time, timed_out, paths_built, prev_path,
              culled_nodes, paths, n_pulls, last_pull, accepted>>

(***************************************************************************)
(* Bounds of the model.                                                    *)
(***************************************************************************)
\* pulls from the upstream generator per run
MaxPulls == 3
\* last tick of the wall clock
MaxTime == 2
\* seconds that pass in one tick of the clock
SecondsPerTick == 20
\* pulls per result manager within one handle_query
MaxManagerPulls == 1
\* the largest max_results of a neighbour search
MaxResults == 2
\* calls of get_results on one path manager
MaxCalls == 2

(***************************************************************************)
(* Program constants.                                                      *)
(***************************************************************************)
DEFAULT_TIMEOUT == 30

(***************************************************************************)
(* Optional values.                                                        *)
(***************************************************************************)
None == {}
Some(x) == {x}
TheVal(o) == CHOOSE x \in o : TRUE

(***************************************************************************)
(* Sequence helpers.                                                       *)
(***************************************************************************)
Reverse(s) == [i \in 1..Len(s) |-> s[Len(s) + 1 - i]]

Range(s) == {s[i] : i \in 1..Len(s)}

RECURSIVE SumOver(_, _)
SumOver(S, f) ==
    IF S = {} THEN 0
    ELSE LET x == CHOOSE y \in S : TRUE IN f[x] + SumOver(S \ {x}, f)

(***************************************************************************)
(* The graph (read only during a search).  "X" is a node name that is not  *)
(* in the graph.                                                           *)
(***************************************************************************)
GraphNodes == {"A", "B", "C", "D", "E"}

NodeAttrs ==
    [n \in GraphNodes |->
        IF n = "D" THEN [ns |-> "CHEBI", id |-> "d"]
        ELSE [ns |-> "HGNC", id |-> n]]

\* the value a statement record holds for the key "stmt_hash" when it has
\* no such key
NoField == 0

Stmt(h, t, b, c, ok) ==
    [stmt_hash |-> h, stmt_type |-> t, belief |-> b, curated |-> c, valid |-> ok]

\* edge -> attribute bag; an edge that is no key here is not in the graph
GraphEdges ==
    ( <<"A", "B">> :> [belief |-> 90, weight |-> 1,
                       statements |-> <<Stmt(1, "Activation", 90, TRUE, TRUE)>>] )
 @@ ( <<"B", "C">> :> [belief |-> 90, weight |-> 1,
                       statements |-> <<Stmt(2, "Inhibition", 90, FALSE, TRUE),
                                        Stmt(3, "Complex", 40, FALSE, TRUE)>>] )
 @@ ( <<"A", "C">> :> [belief |-> 80, weight |-> 1,
                       statements |-> <<Stmt(4, "Complex", 80, TRUE, TRUE)>>] )
 @@ ( <<"B", "D">> :> [belief |-> 70, weight |-> 1,
                       statements |-> <<Stmt(5, "Complex", 70, FALSE, TRUE)>>] )
 @@ ( <<"D", "C">> :> [belief |-> 70, weight |-> 3,
                       statements |-> <<Stmt(6, "Activation", 70, TRUE, TRUE),
                                        Stmt(9, "Complex", 30, FALSE, FALSE)>>] )
 @@ ( <<"A", "D">> :> [belief |-> 50, weight |-> 1,
                       statements |-> <<Stmt(7, "Complex", 50, FALSE, FALSE)>>] )
 @@ ( <<"C", "A">> :> [belief |-> 120, weight |-> 1,
                       statements |-> <<Stmt(8, "Activation", 90, TRUE, TRUE)>>] )
 @@ ( <<"C", "C">> :> [belief |-> 60, weight |-> 1,
                       statements |-> <<Stmt(10, "Activation", 60, TRUE, TRUE),
                                        Stmt(NoField, "Complex", 60, TRUE, TRUE)>>] )
 @@ ( <<"A", "E">> :> [belief |-> 80, weight |-> 1,
                       statements |-> <<Stmt(11, "Activation", 80, TRUE, TRUE)>>] )
 @@ ( <<"E", "C">> :> [belief |-> 80, weight |-> 1,
                       statements |-> <<Stmt(12, "Activation", 80, TRUE, TRUE)>>] )

EdgeSet == DOMAIN GraphEdges

\* networkx DiGraph.degree(nbunch, weight): in-degree plus out-degree, each
\* edge counted with its weight attribute, or 1 when weight is None (a
\* self-loop is an in-edge and an out-edge)
Degree(n, weight) ==
    LET inc == {e \in EdgeSet : e[1] = n \/ e[2] = n}
        w == [e \in inc |->
                (IF e[1] = e[2] THEN 2 ELSE 1)
                  * (IF weight = None THEN 1 ELSE GraphEdges[e].weight)]
    IN SumOver(inc, w)

(***************************************************************************)
(* str.lower() on the namespaces used in the graph and in allowed_ns.      *)
(***************************************************************************)
Lower(s) ==
    CASE s = "HGNC" -> "hgnc"
      [] s = "CHEBI" -> "chebi"
      [] s = "Activation" -> "activation"
      [] s = "Inhibition" -> "inhibition"
      [] s = "Complex" -> "complex"
      [] OTHER -> s

(***************************************************************************)
(* FilterOptions (data_models) as far as the aggregators read it.          *)
(***************************************************************************)
no_node_filters(fo) == fo.node_blacklist = {} /\ fo.allowed_ns = {}

no_stmt_filters(fo) ==
    fo.belief_cutoff = 0 /\ fo.stmt_filter = {} /\ fo.curated_db_only = FALSE

\* ShortestSimplePathsResultManager._remove_used_filters
remove_used_filters(fo) == [fo EXCEPT !.node_blacklist = {}]

(***************************************************************************)
(* The endpoints of the search.  A reverse (upstream open) search is given *)
(* the target only; otherwise source and target are both given.            *)
(***************************************************************************)
Source == "A"
Target == "C"

MkNode(name) == [name |-> name, namespace |-> NodeAttrs[name].ns,
                 identifier |-> NodeAttrs[name].id]

\* UIResultManager._set_source_target: the source and the target given; an
\* open search (breadth first, Dijkstra) is given one of them
input_nodes(c) ==
    IF c.reverse THEN {MkNode(Target)}
    ELSE IF c.mgr \in {"bfs", "dijkstra"} THEN {MkNode(Source)}
    ELSE {MkNode(Source), MkNode(Target)}

\* PathResultManager.filter_input_node
filter_input_node == FALSE

\* the managers whose _pass_node and _pass_stmt apply filters; those of the
\* breadth first, shared interactors, ontology and multi interactors
\* managers return True
FilteringManagers == {"ssp", "dijkstra"}

\* ShortestSimplePathsResultManager._pass_node / DijkstraResultManager._pass_node
pass_node(c, node) ==
    c.mgr \in FilteringManagers => Lower(node.namespace) \in c.fo.allowed_ns

\* a _get_node that filters the input nodes like any other node
get_node_filtering_inputs(c, node_name, apply_filter) ==
    IF node_name \notin GraphNodes THEN None
    ELSE LET node == MkNode(node_name) IN
         IF ~apply_filter \/ no_node_filters(c.fo) \/ pass_node(c, node)
         THEN Some(node)
         ELSE None

\* ResultManager._get_node: None, or the Node of node_name
get_node(c, node_name, apply_filter) ==
    IF node_name \notin GraphNodes THEN None
    ELSE LET node == MkNode(node_name) IN
         IF ~apply_filter \/ (~filter_input_node /\ node \in input_nodes(c))
         THEN Some(node)
         ELSE IF no_node_filters(c.fo) \/ pass_node(c, node)
         THEN Some(node)
         ELSE None

\* ShortestSimplePathsResultManager._pass_stmt.  FilterOptions has no field
\* exclude_stmts, so reading it raises AttributeError.
pass_stmt(c, sd) ==
    IF c.mgr \notin FilteringManagers THEN "pass"
    ELSE IF c.hash_blacklist # {} /\ sd.stmt_hash = NoField
    THEN "KeyError"
    ELSE IF c.hash_blacklist # {} /\ sd.stmt_hash \in c.hash_blacklist
    THEN "fail"
    ELSE "AttributeError"

\* ResultManager._get_stmt_data: "keep", "drop" or the exception raised
get_stmt_data(c, sd) ==
    LET checked == IF no_stmt_filters(c.fo) /\ c.hash_blacklist = {}
                   THEN "pass" ELSE pass_stmt(c, sd)
    IN  CASE checked = "fail" -> "drop"
          [] checked \in {"AttributeError", "KeyError"} -> checked
          [] sd.stmt_hash = NoField -> "KeyError"
          [] OTHER -> IF sd.valid THEN "keep" ELSE "drop"

\* indices of the statements of a list that are kept
KeptIdx(c, stmts) == {i \in 1..Len(stmts) : get_stmt_data(c, stmts[i]) = "keep"}

RECURSIVE SelectIdx(_, _, _)
SelectIdx(s, I, i) ==
    IF i > Len(s) THEN <<>>
    ELSE IF i \in I THEN <<s[i]>> \o SelectIdx(s, I, i + 1)
    ELSE SelectIdx(s, I, i + 1)

\* an edge is emitted whatever support is left
no_support_never(kept) == FALSE

\* _get_edge_data, lines 207-208: all support was filtered out
no_support(kept) == kept = <<>>

\* EdgeData.belief is a confloat(ge=0, le=1)
valid_belief(b) == b \in 0..100

\* ResultManager._get_edge_data: [kind |-> "none"], [kind |-> "error"] or
\* the EdgeData of edge (a, b)
get_edge_data(c, a, b) ==
    LET a_node == get_node(c, a, TRUE)
        b_node == get_node(c, b, TRUE)
    IN  IF a_node = None \/ b_node = None THEN [kind |-> "none"]
        ELSE IF <<a, b>> \notin EdgeSet THEN [kind |-> "error", exc |-> "KeyError"]
        ELSE LET ed == GraphEdges[<<a, b>>]
                 raising == {i \in 1..Len(ed.statements) :
                               get_stmt_data(c, ed.statements[i]) \notin {"keep", "drop"}}
                 first == CHOOSE i \in raising : \A j \in raising : i <= j
                 kept == SelectIdx(ed.statements, KeptIdx(c, ed.statements), 1)
             IN  IF raising # {}
                 THEN [kind |-> "error",
                       exc |-> get_stmt_data(c, ed.statements[first])]
                 ELSE IF no_support(kept) THEN [kind |-> "none"]
                 ELSE IF ~valid_belief(ed.belief)
                 THEN [kind |-> "error", exc |-> "ValidationError"]
                 ELSE [kind |-> "edge",
                       edge |-> <<TheVal(a_node), TheVal(b_node)>>,
                       statements |-> kept,
                       belief |-> ed.belief,
                       weight |-> ed.weight]

(***************************************************************************)
(* _build_paths, lines 474-499: the loop over the edges of one candidate.  *)
(* The loop stops at the first edge without edge data.                     *)
(***************************************************************************)
RECURSIVE loop_edges(_, _, _, _, _)
loop_edges(c, path, i, node_path, edge_data_list) ==
    IF i > Len(path) - 1
    THEN [status |-> "end", node_path |-> node_path,
          edge_data_list |-> edge_data_list]
    ELSE LET edge_data == get_edge_data(c, path[i], path[i + 1]) IN
         CASE edge_data.kind = "error" ->
                [status |-> "error", node_path |-> node_path,
                 edge_data_list |-> edge_data_list]
           [] edge_data.kind = "none" ->
                [status |-> "filtered_out", node_path |-> node_path,
                 edge_data_list |-> edge_data_list]
           [] OTHER ->
                loop_edges(c, path, i + 1,
                           Append(node_path, edge_data.edge[1]),
                           Append(edge_data_list, edge_data))

\* a node path that lacks the final node
final_node_path_missing(r) == r.node_path

\* final append of node_path (line 499): the object of the last edge
final_node_path(r) ==
    Append(r.node_path, r.edge_data_list[Len(r.edge_data_list)].edge[2])

\* outcome of lines 474-503 for one candidate: "error", "discard", or "accept"
\* with the Path built
build_path(c, path) ==
    LET r == loop_edges(c, path, 1, <<>>, <<>>) IN
    CASE r.status = "error" -> [status |-> "error"]
      [] r.status = "filtered_out" \/ r.edge_data_list = <<>> -> [status |-> "discard"]
      [] OTHER -> [status |-> "accept",
                   path_data |-> [path |-> final_node_path(r),
                                  edge_data |-> r.edge_data_list]]

(***************************************************************************)
(* Adaptive pruning: _get_cull_values.                                     *)
(***************************************************************************)
\* the weight key chosen at the top of _build_paths (lines 411-416)
weight_key(fo) ==
    IF fo.context_weighted THEN Some("context_weight")
    ELSE IF fo.weighted # None THEN Some("weight")
    ELSE None

\* prev_path[1:-1]
Internal(path) == SubSeq(path, 2, Len(path) - 1)

\* a cull that ignores the degrees and takes the first internal node
first_internal_node(nodes, weight) == nodes[1]

\* max(degrees, key=lambda x: x[1])[0]: the first node of highest degree
highest_degree_node(nodes, weight) ==
    LET best == CHOOSE i \in 1..Len(nodes) :
                  /\ \A j \in 1..Len(nodes) :
                        Degree(nodes[j], weight) <= Degree(nodes[i], weight)
                  /\ \A j \in 1..(i - 1) :
                        Degree(nodes[j], weight) < Degree(nodes[i], weight)
    IN nodes[best]

\* a cull that forgets the nodes culled before
get_cull_values_latest_only(culled, cull_best_node, prev, added_paths, weight) ==
    IF /\ added_paths >= cull_best_node
       /\ added_paths % cull_best_node = 0
       /\ Len(prev) >= 3
    THEN {highest_degree_node(Internal(prev), weight)}
    ELSE culled

\* _get_cull_values: the culled set after the call (sent as send_values[0])
get_cull_values(culled, cull_best_node, prev, added_paths, weight) ==
    IF /\ added_paths >= cull_best_node
       /\ added_paths % cull_best_node = 0
       /\ Len(prev) >= 3
    THEN culled \cup {highest_degree_node(Internal(prev), weight)}
    ELSE culled

(***************************************************************************)
(* The deadline test shared by all aggregators:                            *)
(*   self.timeout and utcnow() - self.start_time > timedelta(self.timeout) *)
(***************************************************************************)
Elapsed(t_now, t_start) == (t_now - t_start) * SecondsPerTick

\* a deadline test that tolerates twice the timeout
deadline_passed_late(timeout, t_now, t_start) ==
    timeout # 0 /\ Elapsed(t_now, t_start) > 2 * timeout

\* a deadline test without the guard on a falsy timeout
deadline_passed_unguarded(timeout, t_now, t_start) ==
    Elapsed(t_now, t_start) > timeout

deadline_passed(timeout, t_now, t_start) ==
    timeout # 0 /\ Elapsed(t_now, t_start) > timeout

(***************************************************************************)
(* The path aggregator: requests, candidates and state.                    *)
(***************************************************************************)
\* candidate paths the upstream generator can yield, in forward orientation
Candidates ==
    { <<>>,
      <<"A">>,
      <<"A", "C">>,
      <<"A", "B", "C">>,
      <<"A", "B", "D", "C">>,
      <<"A", "X", "C">>,
      <<"A", "D", "C">>,
      <<"A", "E", "C">>,
      <<"C", "A">> }

FilterOptionsSet ==
    [ node_blacklist : {{}},
      allowed_ns : {{}, {"hgnc"}},
      stmt_filter : {{}},
      belief_cutoff : {0},
      curated_db_only : {FALSE},
      path_length : {None, Some(3)},
      max_paths : {1, 3},
      cull_best_node : {None, Some(1), Some(2)},
      weighted : {None, Some("weight")},
      context_weighted : {FALSE},
      overall_weighted : BOOLEAN ]

PathConfigs ==
    [ mgr : {"ssp"},
      fo : FilterOptionsSet,
      timeout : {0, SecondsPerTick},
      reverse : BOOLEAN,
      hash_blacklist : {{}} ]

\* ResultManager.__init__ and PathResultManager.__init__
InitManager ==
    /\ now = 0
    /\ cfg \in {[c EXCEPT !.fo = remove_used_filters(c.fo)] : c \in PathConfigs}
    /\ pc = "new"
    /\ start_time = None
    /\ timed_out = FALSE
    /\ paths_built = 0
    /\ prev_path = None
    /\ culled_nodes = {}
    /\ paths = <<>>
    /\ n_pulls = 0
    /\ last_pull = None
    /\ accepted = <<>>
    /\ ag = [kind |-> "unused"]
    /\ hq = [pc |-> "unused"]

InitPath ==
    /\ InitManager
    /\ call = [fn |-> "unused"]

\* time passes while the loop runs
TickPath ==
    /\ pc = "loop"
    /\ now < MaxTime
    /\ now' = now + 1
    /\ UNCHANGED <<pathVars, ag, hq, call>>

\* a start time taken from a clock that started with the request
new_start_time_shared(st, t_now) == Some(0)

\* ResultManager.get_results (lines 251-252): the start time is set on the
\* first call only
new_start_time(st, t_now) == IF st = None THEN Some(t_now) ELSE st

\* ResultManager.get_results (lines 249-253) entering _get_results and
\* _build_paths (lines 511-514, 407-416)
GetResults ==
    /\ pc = "new"
    /\ start_time' = new_start_time(start_time, now)
    /\ IF Len(paths) = 0 /\ DOMAIN paths = {}
       THEN /\ pc' = "loop"
            /\ paths_built' = 0
            /\ prev_path' = None
            /\ culled_nodes' = {}
       ELSE /\ pc' = "done"
            /\ UNCHANGED <<paths_built, prev_path, culled_nodes>>
    /\ UNCHANGED <<now, cfg, timed_out, paths, n_pulls, last_pull, accepted, ag, hq, call>>

\* lines 419-427: the deadline has passed
LoopTimeout ==
    /\ pc = "loop"
    /\ deadline_passed(cfg.timeout, now, TheVal(start_time))
    /\ timed_out' = TRUE
    /\ pc' = "done"
    /\ UNCHANGED <<now, cfg, start_time, paths_built, prev_path, culled_nodes,
                   paths, n_pulls, last_pull, accepted, ag, hq, call>>

\* lines 428-430: max_paths paths were built
LoopMaxPaths ==
    /\ pc = "loop"
    /\ ~deadline_passed(cfg.timeout, now, TheVal(start_time))
    /\ paths_built >= cfg.fo.max_paths
    /\ pc' = "done"
    /\ UNCHANGED <<now, cfg, start_time, timed_out, paths_built, prev_path,
                   culled_nodes, paths, n_pulls, last_pull, accepted, ag, hq, call>>

\* a loop that pulls once more after max_paths paths were built
CanPullOverMax ==
    /\ pc = "loop"
    /\ ~deadline_passed(cfg.timeout, now, TheVal(start_time))
    /\ paths_built <= cfg.fo.max_paths

\* the loop gets as far as the pull (line 432)
CanPull ==
    /\ pc = "loop"
    /\ ~deadline_passed(cfg.timeout, now, TheVal(start_time))
    /\ paths_built < cfg.fo.max_paths

\* the generator has raised StopIteration: every later next() or send()
\* raises it again
Exhausted == last_pull # None /\ TheVal(last_pull).outcome = "stop"

\* lines 433-449: send() is used once a path was accepted and culling is on
UsesSend == cfg.fo.cull_best_node # None /\ prev_path # None

\* the culled set after lines 437-444
CulledAfterSend ==
    IF UsesSend
    THEN get_cull_values(culled_nodes, TheVal(cfg.fo.cull_best_node),
                         TheVal(prev_path), paths_built, weight_key(cfg.fo))
    ELSE culled_nodes

\* what one pull handed to the generator and what came of it
PullRecord(got, outcome) ==
    [ sent |-> IF UsesSend THEN Some(CulledAfterSend) ELSE None,
      new |-> CulledAfterSend \ culled_nodes,
      built |-> paths_built,
      prev |-> prev_path,
      got |-> got,
      outcome |-> outcome ]

\* the generator yields cand; lines 451-453 reverse it for a reverse search
Oriented(yielded) == IF cfg.reverse THEN Reverse(yielded) ELSE yielded

Yields == {IF cfg.reverse THEN Reverse(p) ELSE p : p \in Candidates}

\* lines 459-462
LengthFilterOn == cfg.fo.path_length # None /\ ~cfg.fo.overall_weighted

\* lines 455-457: the generator is exhausted
PullStopIteration ==
    /\ CanPull
    /\ culled_nodes' = CulledAfterSend
    /\ last_pull' = Some(PullRecord(None, "stop"))
    /\ n_pulls' = n_pulls + 1
    /\ pc' = "done"
    /\ UNCHANGED <<now, cfg, start_time, timed_out, paths_built, prev_path,
                   paths, accepted, ag, hq, call>>

\* lines 463-464: a candidate shorter than path_length is skipped
PullSkipShort ==
    /\ CanPull
    /\ ~Exhausted
    /\ n_pulls < MaxPulls
    /\ n_pulls' = n_pulls + 1
    /\ \E y \in Yields :
        LET path == Oriented(y) IN
        /\ LengthFilterOn
        /\ Len(path) < TheVal(cfg.fo.path_length)
        /\ last_pull' = Some(PullRecord(Some(path), "skip"))
    /\ culled_nodes' = CulledAfterSend
    /\ UNCHANGED <<now, cfg, pc, start_time, timed_out, paths_built, prev_path,
                   paths, accepted, ag, hq, call>>

\* lines 465-470: the first candidate longer than path_length ends the loop
PullBreakLong ==
    /\ CanPull
    /\ ~Exhausted
    /\ n_pulls < MaxPulls
    /\ n_pulls' = n_pulls + 1
    /\ \E y \in Yields :
        LET path == Oriented(y) IN
        /\ LengthFilterOn
        /\ Len(path) > TheVal(cfg.fo.path_length)
        /\ last_pull' = Some(PullRecord(Some(path), "break"))
    /\ culled_nodes' = CulledAfterSend
    /\ pc' = "done"
    /\ UNCHANGED <<now, cfg, start_time, timed_out, paths_built, prev_path,
                   paths, accepted, ag, hq, call>>

\* a length filter that lets every candidate through
PassesLengthAny(path) == TRUE

\* the candidate gets past the length filter (lines 459-472)
PassesLength(path) ==
    LengthFilterOn => Len(path) = TheVal(cfg.fo.path_length)

\* lines 494-496: the candidate is filtered out, or has no edge
PullDiscard ==
    /\ CanPull
    /\ ~Exhausted
    /\ n_pulls < MaxPulls
    /\ n_pulls' = n_pulls + 1
    /\ \E y \in Yields :
        LET path == Oriented(y) IN
        /\ PassesLength(path)
        /\ build_path(cfg, path).status = "discard"
        /\ last_pull' = Some(PullRecord(Some(path), "discard"))
    /\ culled_nodes' = CulledAfterSend
    /\ UNCHANGED <<now, cfg, pc, start_time, timed_out, paths_built, prev_path,
                   paths, accepted, ag, hq, call>>

\* an exception of _get_edge_data leaves get_results
PullError ==
    /\ CanPull
    /\ ~Exhausted
    /\ n_pulls < MaxPulls
    /\ n_pulls' = n_pulls + 1
    /\ \E y \in Yields :
        LET path == Oriented(y) IN
        /\ PassesLength(path)
        /\ build_path(cfg, path).status = "error"
        /\ last_pull' = Some(PullRecord(Some(path), "error"))
    /\ culled_nodes' = CulledAfterSend
    /\ pc' = "error"
    /\ UNCHANGED <<now, cfg, start_time, timed_out, paths_built, prev_path,
                   paths, accepted, ag, hq, call>>

\* a bucket that takes the newest path first
add_path_first(ps, n, path_data) ==
    [k \in DOMAIN ps \cup {n} |->
        IF k = n
        THEN (IF n \in DOMAIN ps THEN <<path_data>> \o ps[n] ELSE <<path_data>>)
        ELSE ps[k]]

\* lines 502-507: self.paths[len(path)].append(path_data)
add_path(ps, n, path_data) ==
    [k \in DOMAIN ps \cup {n} |->
        IF k = n
        THEN (IF n \in DOMAIN ps THEN Append(ps[n], path_data) ELSE <<path_data>>)
        ELSE ps[k]]

\* lines 498-509: the candidate is accepted
PullAccept ==
    /\ CanPull
    /\ ~Exhausted
    /\ n_pulls < MaxPulls
    /\ n_pulls' = n_pulls + 1
    /\ \E y \in Yields :
        LET path == Oriented(y)
            b == build_path(cfg, path)
        IN
        /\ PassesLength(path)
        /\ b.status = "accept"
        /\ last_pull' = Some(PullRecord(Some(path), "accept"))
        /\ paths' = add_path(paths, Len(path), b.path_data)
        /\ prev_path' = Some(path)
        /\ accepted' = Append(accepted, path)
    /\ culled_nodes' = CulledAfterSend
    /\ paths_built' = paths_built + 1
    /\ UNCHANGED <<now, cfg, pc, start_time, timed_out, ag, hq, call>>

NextPath ==
    \/ TickPath
    \/ GetResults
    \/ LoopTimeout
    \/ LoopMaxPaths
    \/ PullStopIteration
    \/ PullSkipShort
    \/ PullBreakLong
    \/ PullDiscard
    \/ PullError
    \/ PullAccept

SpecPath == InitPath /\ [][NextPath]_vars

(***************************************************************************)
(* get_results called again on the same path manager (SpecRepeat): the     *)
(* first call runs as above, its return is recorded in call, and later     *)
(* calls follow.                                                           *)
(***************************************************************************)
InitRepeat ==
    /\ InitManager
    /\ call = [fn |-> "idle"]

\* lines 253 and 515: the first call returns; what it returned and the
\* state it left are recorded
ReturnResults ==
    /\ pc = "done"
    /\ call = [fn |-> "idle"]
    /\ call' = [fn |-> "get_results", calls |-> 1, result |-> paths,
                timed_out |-> timed_out, start_time |-> start_time,
                n_pulls |-> n_pulls]
    /\ UNCHANGED <<now, pathVars, ag, hq>>

\* a later call of get_results (lines 249-253): start_time is kept, and
\* _get_results (lines 511-515) runs _build_paths again when self.paths is
\* empty
GetResultsAgain ==
    /\ pc = "done"
    /\ call # [fn |-> "idle"]
    /\ call.calls < MaxCalls
    /\ call' = [call EXCEPT !.calls = @ + 1]
    /\ start_time' = new_start_time(start_time, now)
    /\ IF DOMAIN paths = {}
       THEN /\ pc' = "loop"
            /\ paths_built' = 0
            /\ prev_path' = None
            /\ culled_nodes' = {}
       ELSE /\ pc' = "done"
            /\ UNCHANGED <<paths_built, prev_path, culled_nodes>>
    /\ UNCHANGED <<now, cfg, timed_out, paths, n_pulls, last_pull, accepted, ag, hq>>

\* time passes between the calls
TickBetweenCalls ==
    /\ pc = "done"
    /\ call # [fn |-> "idle"]
    /\ call.calls < MaxCalls
    /\ now < MaxTime
    /\ now' = now + 1
    /\ UNCHANGED <<pathVars, ag, hq, call>>

NextRepeat ==
    \/ TickPath
    \/ GetResults
    \/ LoopTimeout
    \/ LoopMaxPaths
    \/ PullStopIteration
    \/ PullSkipShort
    \/ PullBreakLong
    \/ PullDiscard
    \/ PullError
    \/ PullAccept
    \/ ReturnResults
    \/ GetResultsAgain
    \/ TickBetweenCalls

SpecRepeat == InitRepeat /\ [][NextRepeat]_vars

(***************************************************************************)
(* The non-path aggregators (SpecAgg): SharedInteractorsResultManager,     *)
(* SubgraphResultManager and MultiInteractorsResultManager.  Each is given *)
(* FilterOptions() by its _remove_used_filters, so no filter applies when  *)
(* edge data is built.                                                     *)
(***************************************************************************)
\* FilterOptions(): the defaults of the model
DefaultFilterOptions ==
    [ node_blacklist |-> {}, allowed_ns |-> {}, stmt_filter |-> {},
      belief_cutoff |-> 0, curated_db_only |-> FALSE, path_length |-> None,
      max_paths |-> 50, cull_best_node |-> None, weighted |-> None,
      context_weighted |-> FALSE, overall_weighted |-> FALSE ]

AggCfg == [mgr |-> "shared", fo |-> DefaultFilterOptions,
           timeout |-> DEFAULT_TIMEOUT,
           reverse |-> FALSE, hash_blacklist |-> {}]

\* _get_edge_data(a, b) returned an EdgeData
has_edge_data(a, b) == get_edge_data(AggCfg, a, b).kind = "edge"

\* items shared_interactors yields for the shared targets of A and B
SharedItems == { << <<"A", "C">>, <<"B", "C">> >>,
                 << <<"A", "D">>, <<"B", "D">> >> }

\* edges get_subgraph_edges yields
SubgraphItems == { <<"A", "B">>, <<"A", "C">>, <<"A", "D">> }

\* neighbours direct_multi_interactors yields for the input nodes below
MultiItems == {"C", "D"}

\* MultiInteractorsRestQuery.nodes, a downstream query
MultiInputNodes == <<"A", "B">>

\* all sequences over S of length at most n
RECURSIVE SeqsUpTo(_, _)
SeqsUpTo(S, n) ==
    IF n = 0 THEN {<<>>}
    ELSE LET shorter == SeqsUpTo(S, n - 1)
         IN  shorter \cup {Append(q, x) : q \in shorter, x \in S}

\* itertools.product(xs, ys) as a list
product(xs, ys) ==
    [k \in 1..(Len(xs) * Len(ys)) |->
        <<xs[((k - 1) \div Len(ys)) + 1], ys[((k - 1) % Len(ys)) + 1]>>]

\* the aggregator after __init__: the shared and subgraph managers take the
\* default timeout, the multi interactor manager the timeout of its query
AggInits ==
    { [kind |-> k, timeout |-> t, gen |-> g, consumed |-> 0, todo |-> <<>>,
       entries |-> <<>>, start_time |-> None, timed_out |-> FALSE,
       pc |-> "new"] :
         k \in {"shared"}, t \in {DEFAULT_TIMEOUT},
         g \in SeqsUpTo(SharedItems, MaxPulls) }
    \cup
    { [kind |-> k, timeout |-> t, gen |-> g, consumed |-> 0, todo |-> <<>>,
       entries |-> <<>>, start_time |-> None, timed_out |-> FALSE,
       pc |-> "new"] :
         k \in {"subgraph"}, t \in {DEFAULT_TIMEOUT},
         g \in SeqsUpTo(SubgraphItems, MaxPulls) }
    \cup
    { [kind |-> k, timeout |-> t, gen |-> g, consumed |-> 0, todo |-> <<>>,
       entries |-> <<>>, start_time |-> None, timed_out |-> FALSE,
       pc |-> "new"] :
         k \in {"multi"}, t \in {SecondsPerTick, DEFAULT_TIMEOUT},
         g \in SeqsUpTo(MultiItems, MaxPulls) }

InitAgg ==
    /\ now = 0
    /\ ag \in AggInits
    /\ cfg = [timeout |-> 0]
    /\ pc = "unused"
    /\ start_time = None
    /\ timed_out = FALSE
    /\ paths_built = 0
    /\ prev_path = None
    /\ culled_nodes = {}
    /\ paths = <<>>
    /\ n_pulls = 0
    /\ last_pull = None
    /\ accepted = <<>>
    /\ hq = [pc |-> "unused"]
    /\ call = [fn |-> "unused"]

\* time passes while an aggregator runs
TickAgg ==
    /\ ag.pc \in {"loop", "edges"}
    /\ now < MaxTime
    /\ now' = now + 1
    /\ UNCHANGED <<pathVars, ag, hq, call>>

\* ResultManager.get_results entering _get_results; the subgraph and multi
\* interactor managers loop only while they hold no data
AggGetResults ==
    /\ ag.pc = "new"
    /\ ag' = [ag EXCEPT
                !.start_time = new_start_time(ag.start_time, now),
                !.pc = IF ag.kind = "shared" \/ ag.entries = <<>>
                       THEN "loop" ELSE "done"]
    /\ UNCHANGED <<now, pathVars, hq, call>>

AggDeadlinePassed ==
    deadline_passed(ag.timeout, now, TheVal(ag.start_time))

\* SharedInteractorsResultManager._get_results, lines 800-808: an item was
\* pulled and the deadline has passed
SharedTimeout ==
    /\ ag.kind = "shared" /\ ag.pc = "loop"
    /\ ag.consumed < Len(ag.gen)
    /\ AggDeadlinePassed
    /\ ag' = [ag EXCEPT !.consumed = @ + 1, !.timed_out = TRUE, !.pc = "done"]
    /\ UNCHANGED <<now, pathVars, hq, call>>

\* lines 800, 809-813: an item was pulled in time
SharedEdges ==
    /\ ag.kind = "shared" /\ ag.pc = "loop"
    /\ ag.consumed < Len(ag.gen)
    /\ ~AggDeadlinePassed
    /\ LET item == ag.gen[ag.consumed + 1]
           s == item[1]
           t == item[2]
       IN  ag' = [ag EXCEPT
                    !.consumed = @ + 1,
                    !.entries = IF has_edge_data(s[1], s[2])
                                   /\ has_edge_data(t[1], t[2])
                                THEN Append(@, item) ELSE @]
    /\ UNCHANGED <<now, pathVars, hq, call>>

\* lines 800, 815-819: the generator is exhausted
SharedReturn ==
    /\ ag.kind = "shared" /\ ag.pc = "loop"
    /\ ag.consumed = Len(ag.gen)
    /\ ag' = [ag EXCEPT !.pc = "done"]
    /\ UNCHANGED <<now, pathVars, hq, call>>

\* SubgraphResultManager._fill_data, lines 1017-1034
FillDataTimeout ==
    /\ ag.kind = "subgraph" /\ ag.pc = "loop"
    /\ ag.consumed < Len(ag.gen)
    /\ AggDeadlinePassed
    /\ ag' = [ag EXCEPT !.consumed = @ + 1, !.timed_out = TRUE, !.pc = "done"]
    /\ UNCHANGED <<now, pathVars, hq, call>>

\* lines 1017, 1035-1043: an edge not seen before gets its data
FillDataEdge ==
    /\ ag.kind = "subgraph" /\ ag.pc = "loop"
    /\ ag.consumed < Len(ag.gen)
    /\ ~AggDeadlinePassed
    /\ LET edge == ag.gen[ag.consumed + 1]
       IN  ag' = [ag EXCEPT
                    !.consumed = @ + 1,
                    !.entries = IF edge \notin Range(@)
                                   /\ has_edge_data(edge[1], edge[2])
                                THEN Append(@, edge) ELSE @]
    /\ UNCHANGED <<now, pathVars, hq, call>>

\* lines 1017, 1046-1057: the generator is exhausted
FillDataReturn ==
    /\ ag.kind = "subgraph" /\ ag.pc = "loop"
    /\ ag.consumed = Len(ag.gen)
    /\ ag' = [ag EXCEPT !.pc = "done"]
    /\ UNCHANGED <<now, pathVars, hq, call>>

\* MultiInteractorsResultManager._get_edge_iter: the list comprehension over
\* path_gen consumes the whole generator
GetEdgeIter ==
    /\ ag.kind = "multi" /\ ag.pc = "loop"
    /\ ag' = [ag EXCEPT !.consumed = Len(ag.gen),
                        !.todo = product(MultiInputNodes, ag.gen),
                        !.pc = "edges"]
    /\ UNCHANGED <<now, pathVars, hq, call>>

\* MultiInteractorsResultManager._loop_edges, lines 1124-1127
LoopEdges ==
    /\ ag.kind = "multi" /\ ag.pc = "edges"
    /\ ag.todo # <<>>
    /\ LET edge == Head(ag.todo)
       IN  ag' = [ag EXCEPT
                    !.todo = Tail(@),
                    !.entries = IF has_edge_data(edge[1], edge[2])
                                THEN Append(@, edge) ELSE @]
    /\ UNCHANGED <<now, pathVars, hq, call>>

\* lines 1128-1138
LoopEdgesReturn ==
    /\ ag.kind = "multi" /\ ag.pc = "edges"
    /\ ag.todo = <<>>
    /\ ag' = [ag EXCEPT !.pc = "done"]
    /\ UNCHANGED <<now, pathVars, hq, call>>

NextAgg ==
    \/ TickAgg
    \/ AggGetResults
    \/ SharedTimeout
    \/ SharedEdges
    \/ SharedReturn
    \/ FillDataTimeout
    \/ FillDataEdge
    \/ FillDataReturn
    \/ GetEdgeIter
    \/ LoopEdges
    \/ LoopEdgesReturn

SpecAgg == InitAgg /\ [][NextAgg]_vars

(***************************************************************************)
(* IndraNetworkSearchAPI.handle_query (SpecHQ).  The result managers are   *)
(* reduced to their clocks and loops: what a candidate holds plays no part *)
(* in the order of the searches.  The shared interactors and ontology      *)
(* managers pull an item and then test the deadline; the path managers     *)
(* test the deadline and then pull.                                        *)
(***************************************************************************)
AuxNames == {"shared_targets", "shared_regulators", "shared_parents"}

ManagerNames == AuxNames \cup {"path_query", "reverse_path_query"}

\* QueryHandler.get_queries: the auxiliary searches among the eligible
\* queries, in the order of the dict, each at most once
RequestedAux ==
    {q \in SeqsUpTo(AuxNames, 3) : \A i, j \in 1..Len(q) : i # j => q[i] # q[j]}

\* the field of Results that receives the result of an algorithm
result_field(alg_name) ==
    CASE alg_name = "shared_targets" -> "shared_target_results"
      [] alg_name = "shared_regulators" -> "shared_regulators_results"
      [] alg_name = "shared_parents" -> "ontology_results"
      [] alg_name = "path_query" -> "path_results"
      [] alg_name = "reverse_path_query" -> "reverse_path_results"

\* the timeout a manager is constructed with: the path managers get
\* user_timeout (PathQuery.result_options), the others the default
manager_timeout(alg_name, user_timeout) ==
    IF alg_name \in {"path_query", "reverse_path_query"}
    THEN user_timeout ELSE DEFAULT_TIMEOUT

NewManager == [st |-> "new", start_time |-> None, timed_out |-> FALSE,
               pulls |-> 0]

\* lines 68-100: the envelope and the managers, none of them started
InitHQ ==
    /\ now = 0
    /\ hq \in { [pc |-> "aux", aux |-> a, reverse |-> r, user_timeout |-> t,
                 i |-> 1, mgr |-> [m \in ManagerNames |-> NewManager],
                 results |-> [timed_out |-> FALSE, committed |-> <<>>]] :
                   a \in RequestedAux, r \in BOOLEAN,
                   t \in {0, SecondsPerTick} }
    /\ cfg = [timeout |-> 0]
    /\ pc = "unused"
    /\ start_time = None
    /\ timed_out = FALSE
    /\ paths_built = 0
    /\ prev_path = None
    /\ culled_nodes = {}
    /\ paths = <<>>
    /\ n_pulls = 0
    /\ last_pull = None
    /\ accepted = <<>>
    /\ ag = [kind |-> "unused"]
    /\ call = [fn |-> "unused"]

\* time passes while a manager loops
TickHQ ==
    /\ \E m \in ManagerNames : hq.mgr[m].st = "loop"
    /\ now < MaxTime
    /\ now' = now + 1
    /\ UNCHANGED <<pathVars, ag, hq, call>>

HQDeadlinePassed(m) ==
    deadline_passed(manager_timeout(m, hq.user_timeout), now,
                    TheVal(hq.mgr[m].start_time))

\* get_results is called on manager m
Started(m) ==
    [hq.mgr EXCEPT ![m].st = "loop",
                   ![m].start_time = new_start_time(@, now)]

\* get_results of manager m returns and its result is assigned to the
\* envelope; the envelope is flagged if the manager timed out
Returned(m, m_timed_out) ==
    [hq EXCEPT !.mgr[m].st = "done",
               !.mgr[m].timed_out = m_timed_out,
               !.results.committed = Append(@, result_field(m)),
               !.results.timed_out = IF m_timed_out THEN TRUE ELSE @]

\* a loop over the auxiliary managers that ends after the first of them
more_aux_first_only(i, aux) == i <= Len(aux) /\ i <= 1

\* line 104: the loop over result_managers has a manager left
more_aux(i, aux) == i <= Len(aux)

\* the path search runs whatever the envelope says
run_path_always(results) == TRUE

\* lines 125 and 131: a path search runs only if nothing timed out so far
run_path(results) == ~results.timed_out

\* lines 114-119: get_results of the next auxiliary manager is called
AuxGetResults ==
    /\ hq.pc = "aux" /\ more_aux(hq.i, hq.aux)
    /\ hq.mgr[hq.aux[hq.i]].st = "new"
    /\ hq' = [hq EXCEPT !.mgr = Started(hq.aux[hq.i])]
    /\ UNCHANGED <<now, pathVars, ag, call>>

\* result_handler.py lines 800-801, 868-869: an item is pulled in time
AuxPull ==
    /\ hq.pc = "aux" /\ more_aux(hq.i, hq.aux)
    /\ LET m == hq.aux[hq.i] IN
        /\ hq.mgr[m].st = "loop"
        /\ hq.mgr[m].pulls < MaxManagerPulls
        /\ ~HQDeadlinePassed(m)
        /\ hq' = [hq EXCEPT !.mgr[m].pulls = @ + 1]
    /\ UNCHANGED <<now, pathVars, ag, call>>

\* an item is pulled after the deadline: the manager times out, its result
\* is assigned, the envelope is flagged and the loop is left (lines 121-124)
AuxTimeout ==
    /\ hq.pc = "aux" /\ more_aux(hq.i, hq.aux)
    /\ LET m == hq.aux[hq.i] IN
        /\ hq.mgr[m].st = "loop"
        /\ hq.mgr[m].pulls < MaxManagerPulls
        /\ HQDeadlinePassed(m)
        /\ hq' = [Returned(m, TRUE) EXCEPT !.mgr[m].pulls = @ + 1,
                                           !.pc = "path"]
    /\ UNCHANGED <<now, pathVars, ag, call>>

\* the generator of the manager is exhausted: its result is assigned and the
\* loop goes on to the next manager
AuxReturn ==
    /\ hq.pc = "aux" /\ more_aux(hq.i, hq.aux)
    /\ LET m == hq.aux[hq.i] IN
        /\ hq.mgr[m].st = "loop"
        /\ hq' = [Returned(m, FALSE) EXCEPT !.i = @ + 1]
    /\ UNCHANGED <<now, pathVars, ag, call>>

\* the loop over result_managers ends
AuxLoopEnd ==
    /\ hq.pc = "aux" /\ ~more_aux(hq.i, hq.aux)
    /\ hq' = [hq EXCEPT !.pc = "path"]
    /\ UNCHANGED <<now, pathVars, ag, call>>

\* the stage after the path search m
after(m) == IF m = "path_query" THEN "rev" ELSE "returned"

stage(m) == IF m = "path_query" THEN "path" ELSE "rev"

\* the path search m is wanted: the reverse search only if it was requested
wanted(m) == m = "path_query" \/ hq.reverse

\* lines 125, 131: the path search is skipped
SkipSearch(m) ==
    /\ hq.pc = stage(m)
    /\ ~(run_path(hq.results) /\ wanted(m))
    /\ hq' = [hq EXCEPT !.pc = after(m)]
    /\ UNCHANGED <<now, pathVars, ag, call>>

\* lines 126, 132: get_results of the path manager is called
SearchGetResults(m) ==
    /\ hq.pc = stage(m)
    /\ run_path(hq.results) /\ wanted(m)
    /\ hq.mgr[m].st = "new"
    /\ hq' = [hq EXCEPT !.mgr = Started(m)]
    /\ UNCHANGED <<now, pathVars, ag, call>>

\* _build_paths: the deadline has not passed and a candidate is pulled
SearchPull(m) ==
    /\ hq.pc = stage(m)
    /\ hq.mgr[m].st = "loop"
    /\ hq.mgr[m].pulls < MaxManagerPulls
    /\ ~HQDeadlinePassed(m)
    /\ hq' = [hq EXCEPT !.mgr[m].pulls = @ + 1]
    /\ UNCHANGED <<now, pathVars, ag, call>>

\* _build_paths: the deadline has passed before a pull
SearchTimeout(m) ==
    /\ hq.pc = stage(m)
    /\ hq.mgr[m].st = "loop"
    /\ HQDeadlinePassed(m)
    /\ hq' = [Returned(m, TRUE) EXCEPT !.pc = after(m)]
    /\ UNCHANGED <<now, pathVars, ag, call>>

\* _build_paths ends in time: max_paths, the end of the candidates or the
\* length cut-off
SearchReturn(m) ==
    /\ hq.pc = stage(m)
    /\ hq.mgr[m].st = "loop"
    /\ ~HQDeadlinePassed(m)
    /\ hq' = [Returned(m, FALSE) EXCEPT !.pc = after(m)]
    /\ UNCHANGED <<now, pathVars, ag, call>>

PathSkip == SkipSearch("path_query")

PathGetResults == SearchGetResults("path_query")

PathPull == SearchPull("path_query")

PathTimeout == SearchTimeout("path_query")

PathReturn == SearchReturn("path_query")

ReverseSkip == SkipSearch("reverse_path_query")

ReverseGetResults == SearchGetResults("reverse_path_query")

ReversePull == SearchPull("reverse_path_query")

ReverseTimeout == SearchTimeout("reverse_path_query")

ReverseReturn == SearchReturn("reverse_path_query")

NextHQ ==
    \/ TickHQ
    \/ AuxGetResults
    \/ AuxPull
    \/ AuxTimeout
    \/ AuxReturn
    \/ AuxLoopEnd
    \/ PathSkip
    \/ PathGetResults
    \/ PathPull
    \/ PathTimeout
    \/ PathReturn
    \/ ReverseSkip
    \/ ReverseGetResults
    \/ ReversePull
    \/ ReverseTimeout
    \/ ReverseReturn

SpecHQ == InitHQ /\ [][NextHQ]_vars

(***************************************************************************)
(* pathfinding.py: shared_interactors and direct_multi_interactors.  A     *)
(* graph g is a record of its node attributes (nodes) and of its edge      *)
(* attributes (edges); the graphs are unsigned.                            *)
(***************************************************************************)
TestGraph == [nodes |-> NodeAttrs, edges |-> GraphEdges]

\* graph.succ[n] and graph.pred[n]
Successors(g, n) == {e[2] : e \in {d \in DOMAIN g.edges : d[1] = n}}

Predecessors(g, n) == {e[1] : e \in {d \in DOMAIN g.edges : d[2] = n}}

Neighbours(g, n, reverse) ==
    IF reverse THEN Predecessors(g, n) ELSE Successors(g, n)

\* the edge between a start node and a neighbour (product(...) in the filters)
EdgeTo(start_node, n, reverse) ==
    IF reverse THEN <<n, start_node>> ELSE <<start_node, n>>

StmtsOf(g, e) == {g.edges[e].statements[i] : i \in 1..Len(g.edges[e].statements)}

SetMax(S) == CHOOSE x \in S : \A y \in S : y <= x

SetMin(S) == CHOOSE x \in S : \A y \in S : x <= y

\* max([sd["belief"] for sd in graph.edges[e]["statements"]])
MaxBelief(g, e) == SetMax({sd.belief : sd \in StmtsOf(g, e)})

namespace_filter(nodes, g, allowed_ns) ==
    {x \in nodes : Lower(g.nodes[x].ns) \in allowed_ns}

stmt_types_filter(start_node, neighbor_nodes, g, reverse, stmt_types) ==
    {n \in neighbor_nodes :
        \E sd \in StmtsOf(g, EdgeTo(start_node, n, reverse)) :
            Lower(sd.stmt_type) \in stmt_types}

filter_curated(start_node, neighbor_nodes, g, reverse) ==
    {n \in neighbor_nodes :
        \E sd \in StmtsOf(g, EdgeTo(start_node, n, reverse)) : sd.curated}

hash_filter(start_node, neighbor_nodes, g, reverse, hashes) ==
    {n \in neighbor_nodes :
        \E sd \in StmtsOf(g, EdgeTo(start_node, n, reverse)) :
            sd.stmt_hash \notin hashes}

\* a belief filter that lets a belief equal to the cutoff pass
belief_filter_inclusive(start_node, neighbor_nodes, g, reverse, belief_cutoff) ==
    {n \in neighbor_nodes :
        \E sd \in StmtsOf(g, EdgeTo(start_node, n, reverse)) :
            sd.belief >= belief_cutoff}

belief_filter(start_node, neighbor_nodes, g, reverse, belief_cutoff) ==
    {n \in neighbor_nodes :
        \E sd \in StmtsOf(g, EdgeTo(start_node, n, reverse)) :
            sd.belief > belief_cutoff}

\* the filters of shared_interactors on the neighbours of one side, each
\* applied only when its option is set (lines 177-213)
side_filtered(g, start_node, o) ==
    LET n0 == Neighbours(g, start_node, o.regulators)
        n1 == IF o.node_blacklist # {} THEN n0 \ o.node_blacklist ELSE n0
        n2 == IF o.allowed_ns # {}
              THEN namespace_filter(n1, g, o.allowed_ns) ELSE n1
        n3 == IF o.stmt_types # {}
              THEN stmt_types_filter(start_node, n2, g, o.regulators, o.stmt_types)
              ELSE n2
        n4 == IF o.curated_db_only
              THEN filter_curated(start_node, n3, g, o.regulators) ELSE n3
        n5 == IF o.hash_blacklist # {}
              THEN hash_filter(start_node, n4, g, o.regulators, o.hash_blacklist)
              ELSE n4
    IN  IF o.belief_cutoff > 0
        THEN belief_filter(start_node, n5, g, o.regulators, o.belief_cutoff)
        ELSE n5

\* shared_interactors._get_min_max_belief
shared_min_max_belief(g, source, target, node, regulators) ==
    SetMin({MaxBelief(g, EdgeTo(source, node, regulators)),
            MaxBelief(g, EdgeTo(target, node, regulators))})

\* the orders of a set
Perms(S) ==
    {f \in [1..Cardinality(S) -> S] :
        \A i, j \in 1..Cardinality(S) : i # j => f[i] # f[j]}

Prefix(s, n) == SubSeq(s, 1, IF n < Len(s) THEN n ELSE Len(s))

\* sorted(intermediates, key=_get_min_max_belief, reverse=True): the sort
\* is stable and the order in which a set is iterated is not specified, so
\* nodes of equal key can come out in any order
shared_sorted(g, source, target, intermediates, regulators) ==
    {f \in Perms(intermediates) :
        \A i, j \in 1..Cardinality(intermediates) :
            i < j => shared_min_max_belief(g, source, target, f[i], regulators)
                       >= shared_min_max_belief(g, source, target, f[j], regulators)}

\* the pair of edges yielded for a shared neighbour x (lines 221-225)
shared_pair(source, target, x, regulators) ==
    IF regulators THEN << <<x, source>>, <<x, target>> >>
    ELSE << <<source, x>>, <<target, x>> >>

\* shared_interactors: the lists it can return
shared_interactors(g, source, target, o) ==
    LET intermediates == side_filtered(g, source, o) \cap side_filtered(g, target, o)
    IN  { [k \in 1..Len(Prefix(f, o.max_results)) |->
              shared_pair(source, target, f[k], o.regulators)] :
          f \in shared_sorted(g, source, target, intermediates, o.regulators) }

\* the order of Python on the node names used here
NameRank == ("A" :> 1) @@ ("B" :> 2) @@ ("C" :> 3) @@ ("D" :> 4)
         @@ ("S" :> 5) @@ ("T" :> 6) @@ ("U" :> 7) @@ ("X" :> 8)
         @@ ("Y" :> 9) @@ ("Z" :> 10)

\* the call filter_func(start_node, neighbor_nodes, g, rev[, filter_option])
\* of _run_edge_filter, filter_func given by its name
filter_call(filter_func, start_node, neighbor_nodes, g, rev, filter_option) ==
    CASE filter_func = "_stmt_types_filter" ->
            stmt_types_filter(start_node, neighbor_nodes, g, rev, filter_option)
      [] filter_func = "_hash_filter" ->
            hash_filter(start_node, neighbor_nodes, g, rev, filter_option)
      [] filter_func = "_belief_filter" ->
            belief_filter(start_node, neighbor_nodes, g, rev, filter_option)
      [] filter_func = "_filter_curated" ->
            filter_curated(start_node, neighbor_nodes, g, rev)

\* _run_edge_filter: the filter applied for one start node after the other,
\* returning as soon as no neighbour is left
run_edge_filter(start_nodes, neighbor_nodes, g, rev, filter_option, filter_func) ==
    LET left[i \in 0..Len(start_nodes)] ==
            IF i = 0 THEN neighbor_nodes
            ELSE IF left[i - 1] = {} THEN left[i - 1]
            ELSE filter_call(filter_func, start_nodes[i], left[i - 1], g, rev,
                             filter_option)
    IN  left[Len(start_nodes)]

\* neighbours taken as the union of the intersections of pairs of nodes
multi_neighbors_pairwise(g, nodes, reverse) ==
    IF Len(nodes) = 1 THEN Neighbours(g, nodes[1], reverse)
    ELSE UNION {Neighbours(g, nodes[p[1]], reverse) \cap Neighbours(g, nodes[p[2]], reverse) :
                   p \in {q \in (1..Len(nodes)) \X (1..Len(nodes)) : q[1] # q[2]}}

\* direct_multi_interactors, lines 289-297: the neighbours of the first
\* node, intersected with those of every other node
multi_neighbors(g, nodes, reverse) ==
    LET left[i \in 1..Len(nodes)] ==
            IF i = 1 THEN Neighbours(g, nodes[1], reverse)
            ELSE left[i - 1] \cap Neighbours(g, nodes[i], reverse)
    IN  left[Len(nodes)]

\* direct_multi_interactors._get_min_max_belief
multi_min_max_belief(g, neigh_node, inp_nodes, rev) ==
    SetMin({MaxBelief(g, EdgeTo(inp_nodes[i], neigh_node, rev)) :
               i \in 1..Len(inp_nodes)})

\* a sort key compared on the belief, then ascending on the name
multi_key_before_name_ascending(g, nodes, rev, a, b) ==
    LET ka == multi_min_max_belief(g, a, nodes, rev)
        kb == multi_min_max_belief(g, b, nodes, rev)
    IN  ka > kb \/ (ka = kb /\ NameRank[a] < NameRank[b])

\* a comes before b in sorted(neighbors, reverse=True, key=(belief, name))
multi_key_before(g, nodes, rev, a, b) ==
    LET ka == multi_min_max_belief(g, a, nodes, rev)
        kb == multi_min_max_belief(g, b, nodes, rev)
    IN  ka > kb \/ (ka = kb /\ NameRank[a] > NameRank[b])

\* direct_multi_interactors: the list it returns, or the exception
direct_multi_interactors(g, nodes, downstream, o) ==
    IF Len(nodes) = 0 THEN [kind |-> "error", exc |-> "ValueError"]
    ELSE
    LET reverse == ~downstream
        n0 == multi_neighbors(g, nodes, reverse)
        n1 == IF o.allowed_ns # {} /\ n0 # {}
              THEN namespace_filter(n0, g, o.allowed_ns) ELSE n0
        n2 == IF o.node_blacklist # {} /\ n1 # {}
              THEN n1 \ o.node_blacklist ELSE n1
        n3 == IF o.stmt_types # {} /\ n2 # {}
              THEN run_edge_filter(nodes, n2, g, reverse, o.stmt_types,
                                   "_stmt_types_filter")
              ELSE n2
        n4 == IF o.hash_blacklist # {} /\ n3 # {}
              THEN run_edge_filter(nodes, n3, g, reverse, o.hash_blacklist,
                                   "_hash_filter")
              ELSE n3
        n5 == IF o.belief_cutoff > 0 /\ n4 # {}
              THEN run_edge_filter(nodes, n4, g, reverse, o.belief_cutoff,
                                   "_belief_filter")
              ELSE n4
        n6 == IF o.curated_db_only /\ n5 # {}
              THEN run_edge_filter(nodes, n5, g, reverse, None,
                                   "_filter_curated")
              ELSE n5
        sorted == CHOOSE f \in Perms(n6) :
                     \A i, j \in 1..Cardinality(n6) :
                        i < j => multi_key_before(g, nodes, reverse, f[i], f[j])
    IN  [kind |-> "list", nodes |-> Prefix(sorted, o.max_results)]

\* the defaults of the parameters of shared_interactors
SharedDefaults ==
    [ allowed_ns |-> {}, stmt_types |-> {}, max_results |-> 50,
      regulators |-> FALSE, hash_blacklist |-> {}, node_blacklist |-> {},
      belief_cutoff |-> 0, curated_db_only |-> FALSE ]

\* SharedInteractorsQuery.run_options: alg_options passed through
\* SharedInteractorsOptions, which declares (and so keeps) source, target,
\* allowed_ns, stmt_types, source_filter, max_results, regulators and sign
shared_run_options(fo, reverse) ==
    [SharedDefaults EXCEPT !.allowed_ns = fo.allowed_ns,
                           !.stmt_types = fo.stmt_filter,
                           !.max_results = fo.max_paths,
                           !.regulators = reverse]

\* SharedInteractorsResultManager._get_results without a timeout: the pairs
\* of EdgeData of the items both of whose edges have data
RECURSIVE shared_results(_, _)
shared_results(items, i) ==
    IF i > Len(items) THEN <<>>
    ELSE LET source_edge == get_edge_data(AggCfg, items[i][1][1], items[i][1][2])
             target_edge == get_edge_data(AggCfg, items[i][2][1], items[i][2][2])
         IN  (IF source_edge.kind = "edge" /\ target_edge.kind = "edge"
              THEN << <<source_edge, target_edge>> >> ELSE <<>>)
             \o shared_results(items, i + 1)

(***************************************************************************)
(* Single calls of functions that hold no state (SpecCall): a call is made *)
(* with arguments drawn from the sets below, its result is recorded, and   *)
(* the caller goes on.                                                     *)
(***************************************************************************)
Idle == [fn |-> "idle"]

\* BreadthFirstSearchResultManager._remove_used_filters ("exclude_stmts" is
\* no field of FilterOptions, so stmt_filter stays)
remove_used_filters_bfs(fo) ==
    [fo EXCEPT !.allowed_ns = {}, !.node_blacklist = {},
               !.belief_cutoff = 0, !.curated_db_only = FALSE]

\* DijkstraResultManager._remove_used_filters
remove_used_filters_dijkstra(fo) ==
    [fo EXCEPT !.node_blacklist = {}, !.cull_best_node = None]

\* the filter options a manager of the given kind keeps
kept_filters(mgr, fo) ==
    CASE mgr = "ssp" -> remove_used_filters(fo)
      [] mgr = "dijkstra" -> remove_used_filters_dijkstra(fo)
      [] mgr = "bfs" -> remove_used_filters_bfs(fo)
      [] OTHER -> DefaultFilterOptions

\* filter options of a request, statement and node filters varied
RequestFilterOptions ==
    { [DefaultFilterOptions EXCEPT !.stmt_filter = sf, !.belief_cutoff = bc,
                                   !.curated_db_only = cu, !.allowed_ns = ns] :
        sf \in {{}, {"complex"}}, bc \in {0, 70, 90}, cu \in BOOLEAN,
        ns \in {{}, {"hgnc"}, {"chebi"}} }

\* result managers after __init__, as far as _get_edge_data reads them
EdgeConfigs ==
    { [mgr |-> k, fo |-> kept_filters(k, fo), timeout |-> DEFAULT_TIMEOUT,
       reverse |-> FALSE,
       hash_blacklist |-> IF k \in FilteringManagers THEN hb ELSE {}] :
        k \in {"ssp", "dijkstra", "bfs", "shared", "multi"},
        fo \in RequestFilterOptions, hb \in {{}, {2}} }

\* node names handed to the managers: those of the graph and an absent one
NodeNames == GraphNodes \cup {"X"}

InitCall ==
    /\ now = 0
    /\ call = Idle
    /\ cfg = [timeout |-> 0]
    /\ pc = "unused"
    /\ start_time = None
    /\ timed_out = FALSE
    /\ paths_built = 0
    /\ prev_path = None
    /\ culled_nodes = {}
    /\ paths = <<>>
    /\ n_pulls = 0
    /\ last_pull = None
    /\ accepted = <<>>
    /\ ag = [kind |-> "unused"]
    /\ hq = [pc |-> "unused"]

\* ResultManager._get_edge_data(a, b) on a manager c
CallGetEdgeData ==
    /\ call = Idle
    /\ \E c \in EdgeConfigs, a \in NodeNames, b \in NodeNames :
          call' = [fn |-> "get_edge_data", c |-> c, a |-> a, b |-> b,
                   result |-> get_edge_data(c, a, b)]
    /\ UNCHANGED <<now, pathVars, ag, hq>>

\* PathResultManager._build_paths, lines 474-503, for one candidate handed
\* to a path manager c
CallBuildPath ==
    /\ call = Idle
    /\ \E c \in {e \in EdgeConfigs : e.mgr \in {"ssp", "dijkstra", "bfs"}},
          path \in Candidates :
          call' = [fn |-> "build_path", c |-> c, path |-> path,
                   result |-> build_path(c, path)]
    /\ UNCHANGED <<now, pathVars, ag, hq>>

\* UIResultManager._set_source_target for optional node names: the Node or
\* None stored as source and as target
set_source_target(source, target) ==
    IF source = None /\ target = None
    THEN [kind |-> "error", exc |-> "ValueError"]
    ELSE [kind |-> "set",
          source |-> IF source = None \/ TheVal(source) \notin GraphNodes
                     THEN None ELSE Some(MkNode(TheVal(source))),
          target |-> IF target = None \/ TheVal(target) \notin GraphNodes
                     THEN None ELSE Some(MkNode(TheVal(target)))]

\* UIResultManager._check_source_or_target
check_source_or_target(st) ==
    IF (st.source # None) # (st.target # None) THEN "ok" ELSE "ValueError"

\* UIResultManager._check_source_and_target
check_source_and_target(st) ==
    IF st.source # None /\ st.target # None THEN "ok" ELSE "ValueError"

\* the managers of the open searches
OpenManagers == {"dijkstra", "bfs"}

\* UIResultManager.__init__: the manager is built, or the exception raised
new_ui_manager(mgr, source, target) ==
    LET st == set_source_target(source, target)
    IN  IF st.kind = "error" THEN st
        ELSE LET checked == IF mgr \in OpenManagers
                            THEN check_source_or_target(st)
                            ELSE check_source_and_target(st)
             IN  IF checked = "ok"
                 THEN [kind |-> "manager", source |-> st.source,
                       target |-> st.target]
                 ELSE [kind |-> "error", exc |-> checked]

\* the endpoints a caller hands to a manager: none, a node of the graph or
\* an absent node
Endpoints == {None, Some("A"), Some("C"), Some("X")}

\* the construction of a manager of kind mgr for a source and a target
CallNewManager ==
    /\ call = Idle
    /\ \E mgr \in {"ssp", "dijkstra", "bfs", "shared"},
          source \in Endpoints, target \in Endpoints :
          call' = [fn |-> "new_manager", mgr |-> mgr, source |-> source,
                   target |-> target,
                   result |-> new_ui_manager(mgr, source, target)]
    /\ UNCHANGED <<now, pathVars, ag, hq>>

INT_PLUS == 0
INT_MINUS == 1

\* the integer keys of the imported mapping SIGNS_TO_INT_SIGN
SIGNS_TO_INT_SIGN == (INT_PLUS :> INT_PLUS) @@ (1 :> INT_MINUS)

\* NetworkSearchQuery.get_int_sign: sign is None or an integer in 0..1
get_int_sign(q) == q.sign

\* a start node that is given the requested sign in both directions
get_open_signed_node_asked(node, reverse, sign) ==
    IF sign = None THEN [name |-> node, sign |-> None]
    ELSE [name |-> node, sign |-> Some(SIGNS_TO_INT_SIGN[TheVal(sign)])]

\* get_open_signed_node: the node, or the pair of the node and its sign
get_open_signed_node(node, reverse, sign) ==
    IF sign = None THEN [name |-> node, sign |-> None]
    ELSE IF reverse
         THEN [name |-> node, sign |-> Some(SIGNS_TO_INT_SIGN[TheVal(sign)])]
         ELSE [name |-> node, sign |-> Some(INT_PLUS)]

\* PathQuery._get_source_node; an endpoint that is not given is ""
get_source_node(q) ==
    IF q.source # "" /\ q.target = ""
    THEN [kind |-> "node", reverse |-> FALSE,
          signed_node |-> get_open_signed_node(q.source, FALSE, get_int_sign(q))]
    ELSE IF q.source = "" /\ q.target # ""
    THEN [kind |-> "node", reverse |-> TRUE,
          signed_node |-> get_open_signed_node(q.target, TRUE, get_int_sign(q))]
    ELSE [kind |-> "error", exc |-> "InvalidParametersError"]

\* the queries handed to the translators of the open searches
OpenQueries ==
    [ alg : {"bfs_search", "open_dijkstra_search"},
      source : {"", "A"}, target : {"", "C"},
      sign : {None, Some(0), Some(1)} ]

\* BreadthFirstSearchQuery.alg_options / DijkstraQuery.alg_options up to
\* the call of _get_source_node, which precedes the search
CallGetSourceNode ==
    /\ call = Idle
    /\ \E q \in OpenQueries :
          call' = [fn |-> "get_source_node", q |-> q,
                   result |-> get_source_node(q)]
    /\ UNCHANGED <<now, pathVars, ag, hq>>

(***************************************************************************)
(* A family of graphs for the neighbour searches: the start nodes S, T and *)
(* U, the neighbours Y and Z, and between a start node and a neighbour no  *)
(* edge, an edge with one statement of belief 50, or an edge with two      *)
(* statements of belief 80 and 30.                                         *)
(***************************************************************************)
StartNodes == {"S", "T", "U"}
NeighbourNodes == {"Y", "Z"}

FamilyNodeAttrs ==
    [n \in StartNodes \cup NeighbourNodes |->
        IF n = "Z" THEN [ns |-> "CHEBI", id |-> "z"]
        ELSE [ns |-> "HGNC", id |-> n]]

LowEdge == [belief |-> 50, weight |-> 1,
            statements |-> <<Stmt(11, "Complex", 50, FALSE, TRUE)>>]

HighEdge == [belief |-> 80, weight |-> 1,
             statements |-> <<Stmt(12, "Activation", 80, TRUE, TRUE),
                              Stmt(13, "Complex", 30, FALSE, TRUE)>>]

EdgeKinds == {"absent", "low", "high"}

\* the graph with the edges of assignment k, from the start nodes to the
\* neighbours or, reversed, from the neighbours to the start nodes
FamilyGraph(k, reversed) ==
    LET present == {e \in DOMAIN k : k[e] # "absent"}
        dir(e) == IF reversed THEN <<e[2], e[1]>> ELSE e
    IN  [nodes |-> FamilyNodeAttrs,
         edges |-> [d \in {dir(e) : e \in present} |->
                       LET e == CHOOSE x \in present : dir(x) = d
                       IN  IF k[e] = "low" THEN LowEdge ELSE HighEdge]]

\* the graphs around the start nodes S and T
SharedGraphs ==
    {FamilyGraph(k, r) : k \in [{"S", "T"} \X NeighbourNodes -> EdgeKinds],
                         r \in BOOLEAN}

\* the filter settings of a neighbour search: none, or one filter set
NeighbourFilters ==
    { SharedDefaults,
      [SharedDefaults EXCEPT !.node_blacklist = {"Z"}],
      [SharedDefaults EXCEPT !.allowed_ns = {"hgnc"}],
      [SharedDefaults EXCEPT !.stmt_types = {"activation"}],
      [SharedDefaults EXCEPT !.curated_db_only = TRUE],
      [SharedDefaults EXCEPT !.hash_blacklist = {12}],
      [SharedDefaults EXCEPT !.belief_cutoff = 50],
      [SharedDefaults EXCEPT !.belief_cutoff = 80] }

\* the options of a neighbour search
NeighbourOptions ==
    {[f EXCEPT !.max_results = m, !.regulators = r] :
        f \in NeighbourFilters, m \in 1..MaxResults, r \in BOOLEAN}

\* shared_interactors(g, S, T) and shared_interactors(g, T, S) with the
\* same options
CallSharedInteractors ==
    /\ call = Idle
    /\ \E g \in SharedGraphs, o \in NeighbourOptions :
       \E res \in shared_interactors(g, "S", "T", o),
          swapped \in shared_interactors(g, "T", "S", o) :
          call' = [fn |-> "shared_interactors", g |-> g, o |-> o,
                   source |-> "S", target |-> "T",
                   result |-> res, swapped |-> swapped]
    /\ UNCHANGED <<now, pathVars, ag, hq>>

\* the graphs around the start nodes S, T and U, with the edges in the
\* direction an upstream or a downstream search follows
MultiGraphs(upstream) ==
    {FamilyGraph(k, upstream) :
        k \in {f \in [StartNodes \X NeighbourNodes -> EdgeKinds] :
                  \A n \in NeighbourNodes : f[<<"U", n>>] # "low"}}

\* the node lists handed to direct_multi_interactors
MultiNodeLists == {<<>>, <<"S">>, <<"S", "T">>, <<"S", "T", "U">>}

\* direct_multi_interactors(g, nodes, downstream); regulators names the
\* upstream direction
CallMultiInteractors ==
    /\ call = Idle
    /\ \E o \in NeighbourOptions, nodes \in MultiNodeLists :
       \E g \in MultiGraphs(o.regulators) :
          call' = [fn |-> "direct_multi_interactors", g |-> g, o |-> o,
                   nodes |-> nodes, downstream |-> ~o.regulators,
                   result |-> direct_multi_interactors(g, nodes, ~o.regulators, o)]
    /\ UNCHANGED <<now, pathVars, ag, hq>>

\* the edges of a set in the order of iteration of the graph: by the first
\* node, then by the second
RECURSIVE edges_in_order(_)
edges_in_order(es) ==
    IF es = {} THEN <<>>
    ELSE LET first == CHOOSE e \in es :
                         \A d \in es :
                            \/ NameRank[e[1]] < NameRank[d[1]]
                            \/ (e[1] = d[1] /\ NameRank[e[2]] <= NameRank[d[2]])
         IN  <<first>> \o edges_in_order(es \ {first})

\* the edges with at least one end among the given names
get_subgraph_edges_one_end(g, node_names) ==
    LET names == Range(node_names) \cap DOMAIN g.nodes
    IN  edges_in_order({e \in DOMAIN g.edges : e[1] \in names \/ e[2] \in names})

\* get_subgraph_edges: the edges of graph.subgraph(node_names), which keeps
\* the named nodes that are in the graph and the edges between them
get_subgraph_edges(g, node_names) ==
    LET names == Range(node_names) \cap DOMAIN g.nodes
    IN  edges_in_order({e \in DOMAIN g.edges : e[1] \in names /\ e[2] \in names})

\* the edges a graph of the subgraph searches can have
SubgraphEdgePool ==
    {<<"S", "S">>, <<"S", "T">>, <<"T", "S">>, <<"S", "Y">>, <<"Y", "T">>}

\* the graphs of the subgraph searches: nodes S, T, U, Y and Z and any of
\* the edges of the pool
SubgraphGraphs ==
    {[nodes |-> FamilyNodeAttrs, edges |-> [e \in es |-> LowEdge]] :
        es \in SUBSET SubgraphEdgePool}

\* the lists of node names handed to get_subgraph_edges; X is not in the
\* graph
SubgraphNodeLists ==
    {<<>>, <<"S">>, <<"X">>, <<"S", "T">>, <<"T", "S">>, <<"S", "X">>,
     <<"S", "S", "T">>, <<"S", "T", "Y">>, <<"S", "T", "X", "Y">>}

\* get_subgraph_edges(g, nodes)
CallSubgraphEdges ==
    /\ call = Idle
    /\ \E g \in SubgraphGraphs, node_names \in SubgraphNodeLists :
          call' = [fn |-> "get_subgraph_edges", g |-> g, node_names |-> node_names,
                   result |-> get_subgraph_edges(g, node_names)]
    /\ UNCHANGED <<now, pathVars, ag, hq>>

\* IndraNetworkSearchAPI.get_graph: the signed node graph or the unsigned
\* directed graph
get_graph(signed) == IF signed THEN "_sng" ELSE "_digraph"

\* the path searches of IndraNetworkSearchAPI
PathAlgorithms == {"shortest_simple_paths", "bfs_search", "open_dijkstra_search"}

\* IndraNetworkSearchAPI.shortest_simple_paths, breadth_first_search and
\* dijkstra: the graph handed to the search function and the graph handed
\* to the result manager
api_graphs(alg, is_signed) ==
    IF alg = "open_dijkstra_search"
    THEN [path_gen |-> get_graph(FALSE), manager |-> get_graph(is_signed)]
    ELSE [path_gen |-> get_graph(is_signed), manager |-> get_graph(is_signed)]

\* IndraNetworkSearchAPI.path_query for a query that is signed or not
CallPathQuery ==
    /\ call = Idle
    /\ \E alg \in PathAlgorithms, is_signed \in BOOLEAN :
          call' = [fn |-> "path_query", alg |-> alg, is_signed |-> is_signed,
                   result |-> api_graphs(alg, is_signed)]
    /\ UNCHANGED <<now, pathVars, ag, hq>>

\* node blacklists of a request (Query._get_node_blacklist without a sign)
RequestNodeBlacklists == {{}, {"C"}}

\* Query._get_node_blacklist: the request's list of names, or with a sign
\* and a non-empty list list(product(node_blacklist, [0, 1])); an entry is
\* a name (sign None) or a pair of a name and a sign
get_node_blacklist(q) ==
    IF q.node_blacklist = <<>> \/ q.sign = None
    THEN [i \in 1..Len(q.node_blacklist) |->
            [name |-> q.node_blacklist[i], sign |-> None]]
    ELSE [i \in 1..(2 * Len(q.node_blacklist)) |->
            [name |-> q.node_blacklist[(i + 1) \div 2],
             sign |-> Some((i + 1) % 2)]]

\* the options models the translators pass alg_options through
\* (run_options): ShortestSimplePathOptions.ignore_nodes and
\* BreadthFirstSearchOptions.node_blacklist are Optional[Set[str]],
\* DijkstraOptions.ignore_nodes is Optional[List[str]], and
\* SharedInteractorsOptions declares no blacklist.  A pair is no str for
\* the validation of a str field.
options_blacklist(alg, node_blacklist) ==
    IF alg = "shared_interactors" THEN [kind |-> "options", nodes |-> {}]
    ELSE IF \E i \in 1..Len(node_blacklist) : node_blacklist[i].sign # None
    THEN [kind |-> "error", exc |-> "ValidationError"]
    ELSE [kind |-> "options", nodes |-> Range(node_blacklist)]

\* the requests whose blacklist is translated
BlacklistQueries ==
    [ alg : {"shortest_simple_paths", "bfs_search", "open_dijkstra_search",
             "shared_interactors"},
      node_blacklist : {<<>>, <<"A">>, <<"B", "D">>, <<"D", "D">>},
      sign : {None, Some(0), Some(1)} ]

\* alg_options and run_options of a translator, as far as the node
\* blacklist goes
CallNodeBlacklist ==
    /\ call = Idle
    /\ \E q \in BlacklistQueries :
          call' = [fn |-> "node_blacklist", q |-> q,
                   expanded |-> get_node_blacklist(q),
                   result |-> options_blacklist(q.alg, get_node_blacklist(q))]
    /\ UNCHANGED <<now, pathVars, ag, hq>>

\* IndraNetworkSearchAPI.shared_targets followed by get_results, for the
\* shared targets of A and B in the test graph
CallSharedTargets ==
    /\ call = Idle
    /\ \E rfo \in RequestFilterOptions, nb \in RequestNodeBlacklists :
       LET fo == [rfo EXCEPT !.node_blacklist = nb] IN
       \E items \in shared_interactors(TestGraph, "A", "B",
                                       shared_run_options(fo, FALSE)) :
          call' = [fn |-> "shared_targets", fo |-> fo, items |-> items,
                   result |-> shared_results(items, 1)]
    /\ UNCHANGED <<now, pathVars, ag, hq>>

\* the caller goes on
CallReturn ==
    /\ call # Idle
    /\ call' = Idle
    /\ UNCHANGED <<now, pathVars, ag, hq>>

NextCall ==
    \/ CallGetEdgeData
    \/ CallBuildPath
    \/ CallSharedTargets
    \/ CallNewManager
    \/ CallGetSourceNode
    \/ CallSharedInteractors
    \/ CallMultiInteractors
    \/ CallNodeBlacklist
    \/ CallPathQuery
    \/ CallSubgraphEdges
    \/ CallReturn

SpecCall == InitCall /\ [][NextCall]_vars

(***************************************************************************)
(* Properties of handle_query (SpecHQ).                                    *)
(***************************************************************************)
Committed(field) == field \in Range(hq.results.committed)

\* get_results of manager m has been called
HasRun(m) == hq.mgr[m].start_time # None

AllAuxCommitted ==
    \A k \in 1..Len(hq.aux) :
        /\ hq.mgr[hq.aux[k]].st = "done"
        /\ Committed(result_field(hq.aux[k]))

\* the fields of the envelope in the order of the requested searches
ExpectedOrder ==
    [k \in 1..Len(hq.aux) |-> result_field(hq.aux[k])]
        \o <<"path_results">>
        \o (IF hq.reverse THEN <<"reverse_path_results">> ELSE <<>>)

IsPrefix(s, t) == Len(s) <= Len(t) /\ s = SubSeq(t, 1, Len(s))

\* C1: in handle_query the results are committed in a fixed order: every
\* requested auxiliary search has run and is committed before the primary
\* path search is started (so before it pulls its first candidate), and
\* the reverse path search runs only if requested and only after the
\* primary path search has returned and is committed.
C1_CommitOrder ==
    /\ IsPrefix(hq.results.committed, ExpectedOrder)
    /\ HasRun("path_query") => AllAuxCommitted
    /\ HasRun("reverse_path_query") =>
          /\ hq.reverse
          /\ hq.mgr["path_query"].st = "done"
          /\ Committed("path_results")

\* three auxiliary searches, the path search and the reverse search have
\* all pulled and returned
C1_Witness ==
    /\ hq.pc = "returned"
    /\ Len(hq.aux) = 3
    /\ hq.results.committed = ExpectedOrder
    /\ \A m \in ManagerNames : hq.mgr[m].pulls > 0

AnyTimedOut == \E m \in ManagerNames : hq.mgr[m].timed_out

\* C2: as soon as an aggregator has finished with timed_out set, the
\* envelope is flagged timed_out, no later aggregator is started and no
\* further field of the envelope is set; the envelope is flagged only if
\* an aggregator that ran timed out.
C2_SkipAfterTimeout ==
    /\ [](hq.results.timed_out <=> AnyTimedOut)
    /\ [][AnyTimedOut =>
            (hq'.mgr = hq.mgr /\ hq'.results = hq.results)]_vars

\* the first of two auxiliary searches timed out: handle_query returned
\* with that one field set, and neither of the path searches was started
C2_Witness ==
    /\ hq.pc = "returned"
    /\ Len(hq.aux) >= 2 /\ hq.reverse
    /\ hq.mgr[hq.aux[1]].timed_out
    /\ hq.results.timed_out
    /\ hq.results.committed = <<result_field(hq.aux[1])>>
    /\ \A m \in ManagerNames \ {hq.aux[1]} : hq.mgr[m] = NewManager

(***************************************************************************)
(* Properties of the path aggregator (SpecPath).                           *)
(***************************************************************************)
LastPull == TheVal(last_pull)

\* a step that calls next()/send() on the generator
IsPull == n_pulls' = n_pulls + 1

ElapsedNow == Elapsed(now, TheVal(start_time))

\* the Path objects of the result, and the node names of one of them
ResultPaths == UNION {Range(paths[n]) : n \in DOMAIN paths}

Names(p) == [i \in 1..Len(p.path) |-> p.path[i].name]

\* every accepted candidate is in the bucket of its node count
AcceptedAreInResult ==
    \A i \in 1..Len(accepted) :
        /\ Len(accepted[i]) \in DOMAIN paths
        /\ \E p \in Range(paths[Len(accepted[i])]) : Names(p) = accepted[i]

\* C3 (as stated, for a configured non-zero timeout): while elapsed >= timeout
\* no pull is made.
C3_Original ==
    [][(pc = "loop" /\ cfg.timeout # 0 /\ ElapsedNow >= cfg.timeout)
         => ~IsPull]_vars

\* C3 (amended): with a non-zero timeout and elapsed > timeout (strictly) no
\* pull is made; the loop ends with timed_out set, without an error, and the
\* result holds every path accepted so far.  A pull is made only while that
\* test fails.
C3_Deadline ==
    /\ [][(pc = "loop" /\ cfg.timeout # 0 /\ ElapsedNow > cfg.timeout)
            => /\ ~IsPull
               /\ pc' \in {"loop", "done"}
               /\ (pc' = "done" => timed_out')
               /\ paths' = paths /\ accepted' = accepted]_vars
    /\ [](timed_out => (pc = "done" /\ AcceptedAreInResult))

C3_Witness ==
    pc = "done" /\ timed_out /\ Len(accepted) >= 1 /\ AcceptedAreInResult

C11_EdgeData ==
    (call.fn = "get_edge_data" /\ call.result.kind = "edge") =>
        /\ call.result.statements # <<>>
        /\ call.result.belief \in 0..100
        /\ <<call.a, call.b>> \in EdgeSet
        /\ \A i \in 1..Len(call.result.statements) :
              /\ call.result.statements[i].valid
              /\ \E j \in KeptIdx(call.c, GraphEdges[<<call.a, call.b>>].statements) :
                    GraphEdges[<<call.a, call.b>>].statements[j]
                        = call.result.statements[i]

\* an EdgeData emitted with fewer statements than the edge has in the graph
C11_Witness ==
    /\ call.fn = "get_edge_data" /\ call.result.kind = "edge"
    /\ Len(call.result.statements)
          < Len(GraphEdges[<<call.a, call.b>>].statements)

\* the statements of edge e that the statement type filter of c leaves
\* (stmt_filter names the statement types to exclude)
LeftByTypeFilter(c, e) ==
    {i \in 1..Len(GraphEdges[e].statements) :
        Lower(GraphEdges[e].statements[i].stmt_type) \notin c.fo.stmt_filter}

Edges(path) == {<<path[i], path[i + 1]>> : i \in 1..(Len(path) - 1)}

\* C12: in a point-to-point path search a candidate one of whose edges is
\* left with no statement by the statement filter is discarded (no error,
\* no path), and an accepted path has at least one statement on each edge.
C12_Original ==
    (call.fn = "build_path" /\ call.c.mgr = "ssp") =>
        /\ call.result.status = "accept" =>
              \A i \in 1..Len(call.result.path_data.edge_data) :
                  call.result.path_data.edge_data[i].statements # <<>>
        /\ (/\ Edges(call.path) # {}
            /\ Edges(call.path) \subseteq EdgeSet
            /\ \E e \in Edges(call.path) : LeftByTypeFilter(call.c, e) = {})
              => call.result.status = "discard"

\* without a filter the candidate A, B, C is accepted with two EdgeData
C12_Unfiltered ==
    /\ call.fn = "build_path" /\ call.c.mgr = "ssp"
    /\ no_stmt_filters(call.c.fo) /\ call.c.hash_blacklist = {}
    /\ call.path = <<"A", "B", "C">>
    /\ call.result.status = "accept"
    /\ Len(call.result.path_data.edge_data) = 2

\* with a statement filter set, the shortest simple paths manager raises
\* on the first statement it has to test
C12_FilterRaises ==
    (/\ call.fn = "build_path" /\ call.c.mgr = "ssp"
     /\ ~no_stmt_filters(call.c.fo)
     /\ Edges(call.path) # {}
     /\ \A n \in Range(call.path) : get_node(call.c, n, TRUE) # None
     /\ Edges(call.path) \subseteq EdgeSet)
        => call.result.status = "error"

\* the statements of all EdgeData of a shared interactors result
SharedResultStmts ==
    UNION { Range(call.result[i][1].statements)
              \cup Range(call.result[i][2].statements) :
            i \in 1..Len(call.result) }

\* an edge of the test graph none of whose statements has a belief above c
AllAtMost(e, c) == \A sd \in StmtsOf(TestGraph, e) : sd.belief <= c

\* C13: with a belief cutoff c > 0 every statement retained in an EdgeData
\* of a result has a belief above c, and an edge all of whose statements
\* have a belief of at most c is dropped (no EdgeData, no error); for path
\* results and for shared interactors results.
C13_Original ==
    /\ (call.fn = "shared_targets" /\ call.fo.belief_cutoff > 0) =>
          \A sd \in SharedResultStmts : sd.belief > call.fo.belief_cutoff
    /\ (/\ call.fn = "get_edge_data"
        /\ call.c.mgr \in FilteringManagers
        /\ call.c.fo.belief_cutoff > 0) =>
          /\ call.result.kind = "edge" =>
                \A sd \in Range(call.result.statements) :
                    sd.belief > call.c.fo.belief_cutoff
          /\ (/\ <<call.a, call.b>> \in EdgeSet
              /\ AllAtMost(<<call.a, call.b>>, call.c.fo.belief_cutoff))
                => call.result.kind = "none"

\* the part of C13 on shared interactors results alone
C13_SharedOnly ==
    (call.fn = "shared_targets" /\ call.fo.belief_cutoff > 0) =>
        \A sd \in SharedResultStmts : sd.belief > call.fo.belief_cutoff

\* the endpoints given to a manager are what its search needs: both for a
\* point-to-point manager, one for an open one
EndpointsAsNeeded ==
    IF call.mgr \in OpenManagers
    THEN (call.source # None) # (call.target # None)
    ELSE call.source # None /\ call.target # None

\* C14: a node absent from the graph never causes an error: a candidate
\* containing it is discarded and the search continues, and a manager given
\* an absent node as source or target is built without an error.
C14_Original ==
    /\ (call.fn = "build_path" /\ \E i \in 1..Len(call.path) :
                                      call.path[i] \notin GraphNodes)
          => call.result.status = "discard"
    /\ (call.fn = "get_edge_data" /\ {call.a, call.b} \ GraphNodes # {})
          => call.result.kind = "none"
    /\ (call.fn = "new_manager" /\ EndpointsAsNeeded)
          => call.result.kind # "error"

\* the part of C14 on nodes inside candidates
C14_InsideCandidates ==
    /\ (call.fn = "build_path" /\ \E i \in 1..Len(call.path) :
                                      call.path[i] \notin GraphNodes)
          => call.result.status = "discard"
    /\ (call.fn = "get_edge_data" /\ {call.a, call.b} \ GraphNodes # {})
          => call.result.kind = "none"

\* with endpoints that are in the graph the manager is built
C14_PresentEndpoints ==
    (/\ call.fn = "new_manager" /\ EndpointsAsNeeded
     /\ {call.source, call.target} \subseteq {None, Some("A"), Some("C")})
        => call.result.kind = "manager"

\* C15: in an open search the start node of a downstream search (only the
\* source given) gets sign 0 whatever sign is requested, the start node of
\* an upstream search (only the target given) gets the requested sign, and
\* with no sign requested the start node is unsigned.
C15_OpenSign ==
    (call.fn = "get_source_node" /\ call.result.kind = "node") =>
        /\ call.q.sign = None => call.result.signed_node.sign = None
        /\ (call.q.sign # None /\ call.q.target = "") =>
              /\ ~call.result.reverse
              /\ call.result.signed_node = [name |-> call.q.source,
                                            sign |-> Some(0)]
        /\ (call.q.sign # None /\ call.q.source = "") =>
              /\ call.result.reverse
              /\ call.result.signed_node = [name |-> call.q.target,
                                            sign |-> call.q.sign]

\* a downstream search that asks for sign 1 and starts at a node of sign 0
C15_Witness ==
    /\ call.fn = "get_source_node" /\ call.result.kind = "node"
    /\ call.q.sign = Some(1) /\ call.q.target = ""
    /\ call.result.signed_node.sign = Some(0)

\* an upstream search that asks for sign 1 and starts at a node of sign 1
C15_UpstreamReached ==
    /\ call.fn = "get_source_node" /\ call.result.kind = "node"
    /\ call.q.sign = Some(1) /\ call.q.source = ""
    /\ call.result.signed_node.sign = Some(1)

\* C16: the translation of an open search succeeds exactly when one of
\* source and target is given; with both it raises InvalidParameters and
\* with neither it raises MissingParameters.
C16_Original ==
    call.fn = "get_source_node" =>
        /\ call.result.kind = "node" <=>
              ((call.q.source # "") # (call.q.target # ""))
        /\ (call.q.source # "" /\ call.q.target # "") =>
              (call.result.kind = "error"
                  /\ call.result.exc = "InvalidParametersError")
        /\ (call.q.source = "" /\ call.q.target = "") =>
              (call.result.kind = "error"
                  /\ call.result.exc = "MissingParametersError")

\* what the code does: InvalidParameters with both and with neither
C16_InvalidInBothCases ==
    call.fn = "get_source_node" =>
        /\ call.result.kind = "node" <=>
              ((call.q.source # "") # (call.q.target # ""))
        /\ call.result.kind = "error" =>
              call.result.exc = "InvalidParametersError"

\* the pairs of a result of shared_interactors, as a set
PairSet(res) == {res[i] : i \in 1..Len(res)}

\* a pair with its two slots swapped
SwapSlots(p) == <<p[2], p[1]>>

\* C17: shared_interactors for targets is symmetric: the call with source
\* and target swapped yields, after the two slots of each pair are swapped,
\* the same set of pairs, also when max_results cuts a ranking with ties.
C17_Original ==
    (call.fn = "shared_interactors" /\ ~call.o.regulators) =>
        PairSet(call.result) = {SwapSlots(p) : p \in PairSet(call.swapped)}

\* when max_results cuts nothing the two calls agree
C17_UncutSymmetric ==
    (/\ call.fn = "shared_interactors" /\ ~call.o.regulators
     /\ Len(call.result) < call.o.max_results) =>
        PairSet(call.result) = {SwapSlots(p) : p \in PairSet(call.swapped)}

\* the edge of graph g between start node x and neighbour n in the
\* direction of the search
SideEdge(x, n, regulators) == IF regulators THEN <<n, x>> ELSE <<x, n>>

\* neighbour n of start node x passes the filters named in o: each filter
\* that is set is passed by some statement of the edge
SidePasses(g, x, n, o) ==
    LET e == SideEdge(x, n, o.regulators)
        sds == {g.edges[e].statements[i] : i \in 1..Len(g.edges[e].statements)}
    IN  /\ e \in DOMAIN g.edges
        /\ n \notin o.node_blacklist
        /\ o.allowed_ns # {} => Lower(g.nodes[n].ns) \in o.allowed_ns
        /\ o.stmt_types # {} => \E sd \in sds : Lower(sd.stmt_type) \in o.stmt_types
        /\ o.curated_db_only => \E sd \in sds : sd.curated
        /\ o.hash_blacklist # {} => \E sd \in sds : sd.stmt_hash \notin o.hash_blacklist
        /\ o.belief_cutoff > 0 => \E sd \in sds : sd.belief > o.belief_cutoff

\* the nodes that pass on the source side and on the target side
SharedNeighbours ==
    {n \in DOMAIN call.g.nodes :
        /\ SidePasses(call.g, call.source, n, call.o)
        /\ SidePasses(call.g, call.target, n, call.o)}

C18_BlacklistedEmpty ==
    /\ call.fn = "shared_interactors" /\ ~call.o.regulators
    /\ {<<"S", "Z">>, <<"T", "Z">>} \subseteq DOMAIN call.g.edges
    /\ <<"S", "Y">> \notin DOMAIN call.g.edges
    /\ call.o.node_blacklist = {"Z"}
    /\ call.result = <<>>

\* a side that drops a neighbour the other side keeps
C18_OneSideDrops ==
    /\ call.fn = "shared_interactors"
    /\ call.o.belief_cutoff = 50
    /\ \E n \in NeighbourNodes :
          /\ SidePasses(call.g, call.source, n, call.o)
          /\ SideEdge(call.target, n, call.o.regulators) \in DOMAIN call.g.edges
          /\ ~SidePasses(call.g, call.target, n, call.o)
          /\ \A i \in 1..Len(call.result) : n \notin {call.result[i][1][1], call.result[i][1][2]}

\* the neighbours, in the direction of the search, of input node x
DirectedNeighbours(x) ==
    {n \in DOMAIN call.g.nodes :
        SideEdge(x, n, ~call.downstream) \in DOMAIN call.g.edges}

\* the nodes of a result list, as a set
ResultNodes == {call.result.nodes[i] : i \in 1..Len(call.result.nodes)}

InputNodes == {call.nodes[i] : i \in 1..Len(call.nodes)}

\* the neighbours of every input node whose edge to each input node passes
\* the filters that are set
CommonPassing ==
    {n \in DOMAIN call.g.nodes :
        \A x \in InputNodes : SidePasses(call.g, x, n, call.o)}

C19_FilteredOut ==
    /\ call.fn = "direct_multi_interactors" /\ call.result.kind = "list"
    /\ Len(call.nodes) >= 2
    /\ \E n \in NeighbourNodes :
          /\ \A x \in InputNodes : n \in DirectedNeighbours(x)
          /\ SidePasses(call.g, call.nodes[1], n, call.o)
          /\ n \notin ResultNodes
          /\ Len(call.result.nodes) < call.o.max_results

\* the rank of a neighbour: the least, over the input nodes, of the highest
\* statement belief on the edge to it
RankBelief(n) ==
    LET best(x) ==
            LET sts == call.g.edges[SideEdge(x, n, ~call.downstream)].statements
            IN  CHOOSE b \in {sts[i].belief : i \in 1..Len(sts)} :
                   \A i \in 1..Len(sts) : sts[i].belief <= b
    IN  CHOOSE b \in {best(x) : x \in InputNodes} :
           \A x \in InputNodes : b <= best(x)

\* a ranks above b: higher belief, or the same belief and the later name
RanksAbove(a, b) ==
    \/ RankBelief(a) > RankBelief(b)
    \/ RankBelief(a) = RankBelief(b) /\ NameRank[a] > NameRank[b]

C20_BeliefFirst ==
    /\ call.fn = "direct_multi_interactors" /\ call.result.kind = "list"
    /\ call.result.nodes = <<"Y", "Z">>

\* the node names given to a subgraph search, as a set
GivenNames == {call.node_names[i] : i \in 1..Len(call.node_names)}

C21_AllBetween ==
    /\ call.fn = "get_subgraph_edges"
    /\ call.node_names = <<"S", "T", "X", "Y">>
    /\ Len(call.result) = 5

\* C22: the search function and the result manager of a path search both
\* work on the signed graph when the query is signed and both on the
\* unsigned graph otherwise, for all three path searches.
C22_Original ==
    call.fn = "path_query" =>
        /\ call.result.path_gen = (IF call.is_signed THEN "_sng" ELSE "_digraph")
        /\ call.result.manager = (IF call.is_signed THEN "_sng" ELSE "_digraph")

\* all searches but Dijkstra use one graph, the one the sign selects
C22_AllButDijkstra ==
    (call.fn = "path_query" /\ call.alg # "open_dijkstra_search") =>
        /\ call.result.path_gen = (IF call.is_signed THEN "_sng" ELSE "_digraph")
        /\ call.result.manager = call.result.path_gen

\* the result manager always gets the graph the sign selects
C22_ManagerGraph ==
    call.fn = "path_query" =>
        call.result.manager = (IF call.is_signed THEN "_sng" ELSE "_digraph")

\* a statement record that fails validation or lacks a field
Malformed(sd) == ~sd.valid \/ sd.stmt_hash = NoField

\* the statements of edge e of the test graph that are well formed
WellFormed(e) ==
    SelectSeq(GraphEdges[e].statements, LAMBDA sd : ~Malformed(sd))

\* the call is _get_edge_data on an edge of the graph that carries a
\* malformed statement, made by a manager that tests no statement (no
\* statement filter set, or a _pass_stmt that returns True)
MalformedOnEdge ==
    /\ call.fn = "get_edge_data"
    /\ <<call.a, call.b>> \in EdgeSet
    /\ \E i \in 1..Len(GraphEdges[<<call.a, call.b>>].statements) :
          Malformed(GraphEdges[<<call.a, call.b>>].statements[i])
    /\ \/ call.c.mgr \notin FilteringManagers
       \/ (no_stmt_filters(call.c.fo) /\ call.c.hash_blacklist = {})
    /\ get_node(call.c, call.a, TRUE) # None
    /\ get_node(call.c, call.b, TRUE) # None

\* C23: a malformed statement record on an edge is left out of the edge's
\* statements and no error propagates: the edge is built from the well
\* formed statements, or dropped when none is left.
C23_Original ==
    MalformedOnEdge =>
        IF WellFormed(<<call.a, call.b>>) = <<>>
        THEN call.result.kind = "none"
        ELSE /\ call.result.kind = "edge"
             /\ call.result.statements = WellFormed(<<call.a, call.b>>)

\* a record that fails validation is left out and the edge is built from
\* the rest
C23_ValidationDropped ==
    (MalformedOnEdge
        /\ \A i \in 1..Len(GraphEdges[<<call.a, call.b>>].statements) :
              GraphEdges[<<call.a, call.b>>].statements[i].stmt_hash # NoField) =>
        IF WellFormed(<<call.a, call.b>>) = <<>>
        THEN call.result.kind = "none"
        ELSE /\ call.result.kind = "edge"
             /\ call.result.statements = WellFormed(<<call.a, call.b>>)

\* a record without a statement hash makes _get_edge_data raise KeyError
C23_MissingHashRaises ==
    (MalformedOnEdge
        /\ \E i \in 1..Len(GraphEdges[<<call.a, call.b>>].statements) :
              GraphEdges[<<call.a, call.b>>].statements[i].stmt_hash = NoField) =>
        call.result = [kind |-> "error", exc |-> "KeyError"]

\* C24: the excluded-node set handed to the generator is cumulative: each
\* pull sends a set that contains the set of the pull before, the set gains
\* a node only on a pull made when the number of accepted paths is a
\* positive multiple of K, and a node it gains is neither the first nor the
\* last node of the accepted path it was selected from.
C24_CumulativeCull ==
    [][IsPull =>
         /\ culled_nodes \subseteq culled_nodes'
         /\ UsesSend => TheVal(last_pull').sent = Some(culled_nodes')
         /\ ~UsesSend => culled_nodes' = culled_nodes
         /\ culled_nodes' # culled_nodes =>
               /\ cfg.fo.cull_best_node # None
               /\ paths_built > 0
               /\ paths_built % TheVal(cfg.fo.cull_best_node) = 0
               /\ prev_path # None
               /\ \A n \in culled_nodes' \ culled_nodes :
                     /\ n # TheVal(prev_path)[1]
                     /\ n # TheVal(prev_path)[Len(TheVal(prev_path))]
                     /\ \E i \in 2..(Len(TheVal(prev_path)) - 1) :
                           TheVal(prev_path)[i] = n]_vars

\* a pull that sends two excluded nodes, one of them gained on that pull
C24_Witness ==
    /\ last_pull # None
    /\ LastPull.sent # None
    /\ Cardinality(TheVal(LastPull.sent)) = 2
    /\ Cardinality(LastPull.new) = 1
    /\ LastPull.sent = Some(culled_nodes)

\* a pull that sends again the set of the pull before, with nothing gained
C24_SentAgain ==
    /\ last_pull # None
    /\ LastPull.sent # None
    /\ TheVal(LastPull.sent) # {}
    /\ LastPull.new = {}

\* the neighbours a shared interactors result names (the far end of the
\* first edge of each pair)
SharedResultNeighbours ==
    {call.result[i][1].edge[2].name : i \in 1..Len(call.result)}

\* C25: every request filter an aggregator removes from its FilterOptions
\* is handed by the translator to the upstream search, so each filter of the
\* request is enforced on the final result; in particular a shared targets
\* search issued through the translator never returns a neighbour named in
\* the request's node blacklist.
C25_Original ==
    call.fn = "shared_targets" =>
        SharedResultNeighbours \cap call.fo.node_blacklist = {}

\* the filters SharedInteractorsOptions declares do reach the search: with
\* an allowed namespace every neighbour returned is in it, with a statement
\* type every edge returned carries a statement of it
C25_DeclaredHanded ==
    call.fn = "shared_targets" =>
        /\ call.fo.allowed_ns # {} =>
              \A n \in SharedResultNeighbours :
                  Lower(NodeAttrs[n].ns) \in call.fo.allowed_ns
        /\ call.fo.stmt_filter # {} =>
              \A i \in 1..Len(call.result) : \A k \in 1..2 :
                  \E sd \in Range(call.result[i][k].statements) :
                      Lower(sd.stmt_type) \in call.fo.stmt_filter

\* the node blacklist never changes the result: the search runs with the
\* default (empty) blacklist whatever the request names
C25_BlacklistDropped ==
    call.fn = "shared_targets" =>
        /\ shared_run_options(call.fo, FALSE).node_blacklist = {}
        /\ call.items \in shared_interactors(TestGraph, "A", "B",
              shared_run_options([call.fo EXCEPT !.node_blacklist = {}], FALSE))

\* a node of the call's candidate that fails the node filter of the call's
\* manager and is none of its input nodes
FailsNodeFilter(n) ==
    /\ ~no_node_filters(call.c.fo)
    /\ ~pass_node(call.c, MkNode(n))
    /\ MkNode(n) \notin input_nodes(call.c)

\* the call's candidate is accepted by the same manager without a namespace
\* allow-list, so only the node filter can discard it
AcceptedUnfiltered ==
    /\ call.fn = "build_path"
    /\ build_path([call.c EXCEPT !.fo.allowed_ns = {}], call.path).status
          = "accept"

\* C27: a node equal to an input node of the aggregator passes without the
\* node filter being evaluated (filter_input_node is false for every
\* aggregator), so a path is never discarded because its source or target
\* fails the namespace allow-list, while any other node of the path that
\* fails the node filter discards the whole path.
C27_InputNodesPass ==
    /\ ~filter_input_node
    /\ (/\ call.fn = "get_edge_data"
        /\ get_edge_data([call.c EXCEPT !.fo.allowed_ns = {}],
                         call.a, call.b).kind = "edge") =>
          /\ call.result.kind \in {"edge", "none"}
          /\ call.result.kind = "none"
                <=> FailsNodeFilter(call.a) \/ FailsNodeFilter(call.b)
    /\ AcceptedUnfiltered =>
          /\ call.result.status \in {"accept", "discard"}
          /\ call.result.status = "discard"
                <=> \E i \in 1..Len(call.path) : FailsNodeFilter(call.path[i])

\* the direct path from the source to the target accepted although both
\* are outside the allowed namespace
C27_Witness ==
    /\ AcceptedUnfiltered
    /\ call.c.mgr = "ssp"
    /\ call.c.fo.allowed_ns = {"chebi"}
    /\ call.path = <<"A", "C">>
    /\ ~pass_node(call.c, MkNode("A"))
    /\ ~pass_node(call.c, MkNode("C"))
    /\ call.result.status = "accept"

\* a path discarded for an internal node outside the allowed namespace
C27_InternalDiscards ==
    /\ AcceptedUnfiltered
    /\ call.c.mgr = "ssp"
    /\ call.c.fo.allowed_ns = {"hgnc"}
    /\ call.path = <<"A", "B", "D", "C">>
    /\ call.result.status = "discard"

\* the last node of a path of an open search is no input node of the
\* manager: it is filtered like an internal node
C27_OpenEndFiltered ==
    /\ AcceptedUnfiltered
    /\ call.c.mgr = "dijkstra"
    /\ call.c.fo.allowed_ns = {"chebi"}
    /\ call.path = <<"A", "C">>
    /\ call.result.status = "discard"

\* the node names of a Path of the result
PathNames(path_data) ==
    [i \in 1..Len(path_data.path) |-> path_data.path[i].name]

\* the node names of the paths of bucket n, in the order of the bucket
BucketNames(n) == [i \in 1..Len(paths[n]) |-> PathNames(paths[n][i])]

\* the accepted paths of n nodes, in the order of their acceptance
AcceptedOfLength(n) == SelectSeq(accepted, LAMBDA p : Len(p) = n)

\* C26: accepted paths are grouped into buckets keyed by node count: every
\* path in bucket n has n nodes, each accepted path is in exactly one
\* bucket, and within a bucket the paths are in the order of acceptance.
C26_Buckets ==
    /\ \A n \in DOMAIN paths :
          /\ paths[n] # <<>>
          /\ \A i \in 1..Len(paths[n]) :
                /\ Len(paths[n][i].path) = n
                /\ Len(paths[n][i].edge_data) = n - 1
          /\ BucketNames(n) = AcceptedOfLength(n)
    /\ \A i \in 1..Len(accepted) : Len(accepted[i]) \in DOMAIN paths
    /\ SumOver(DOMAIN paths, [n \in DOMAIN paths |-> Len(paths[n])])
          = Len(accepted)

\* two buckets, one of them holding two different paths accepted one after
\* the other with a path of the other bucket accepted in between
C26_Witness ==
    /\ Len(accepted) = 3
    /\ accepted[1] = <<"A", "E", "C">>
    /\ accepted[2] = <<"A", "C">>
    /\ accepted[3] = <<"A", "B", "C">>
    /\ DOMAIN paths = {2, 3}
    /\ BucketNames(3) = << <<"A", "E", "C">>, <<"A", "B", "C">> >>

\* both signed identities of every name of the call's blacklist
BothSigns ==
    {[name |-> call.q.node_blacklist[i], sign |-> Some(s)] :
        i \in 1..Len(call.q.node_blacklist), s \in 0..1}

\* the names of the call's blacklist as they were given
GivenBlacklist ==
    {[name |-> call.q.node_blacklist[i], sign |-> None] :
        i \in 1..Len(call.q.node_blacklist)}

\* the call translates a blacklist for one of the path searches
PathBlacklistCall ==
    call.fn = "node_blacklist" /\ call.q.alg # "shared_interactors"

\* C28: with a sign the translator expands a name-only node blacklist so
\* that both signed identities (name,0) and (name,1) of every blacklisted
\* name, and nothing else, are in the blacklist handed to the search;
\* without a sign or with an empty blacklist it is handed on unchanged.
C28_Original ==
    PathBlacklistCall =>
        /\ call.result.kind = "options"
        /\ call.result.nodes =
              IF call.q.sign # None THEN BothSigns ELSE GivenBlacklist

\* what _get_node_blacklist returns is as stated
C28_Expansion ==
    call.fn = "node_blacklist" =>
        /\ Range(call.expanded) =
              IF call.q.sign # None THEN BothSigns ELSE GivenBlacklist
        /\ (call.q.sign = None \/ call.q.node_blacklist = <<>>)
              => Len(call.expanded) = Len(call.q.node_blacklist)

\* the expanded blacklist never reaches a path search: the options model
\* rejects it, and a blacklist without pairs is handed on
C28_SignedRejected ==
    PathBlacklistCall =>
        IF call.q.sign # None /\ call.q.node_blacklist # <<>>
        THEN call.result = [kind |-> "error", exc |-> "ValidationError"]
        ELSE call.result = [kind |-> "options", nodes |-> GivenBlacklist]

\* C29: a path aggregation that stops because it has accepted max_paths
\* paths is never flagged timed_out: timed_out is set only when the run was
\* cut short with fewer than max_paths accepted paths.
C29_Original ==
    timed_out => Len(accepted) < cfg.fo.max_paths

\* a run that has accepted max_paths paths ends unflagged when the deadline
\* has not passed at the next test of the loop, and flagged when it has:
\* the deadline is tested before the number of paths
C29_DeadlineTestedFirst ==
    [][(pc = "loop" /\ pc' = "done" /\ Len(accepted) >= cfg.fo.max_paths)
         => (timed_out' <=>
               (cfg.timeout # 0 /\ ElapsedNow > cfg.timeout))]_vars

\* a run that ended with max_paths paths accepted and flagged timed_out
C29_FullAndFlagged ==
    /\ pc = "done"
    /\ timed_out
    /\ Len(accepted) = cfg.fo.max_paths
    /\ cfg.fo.max_paths = 3

\* a call of get_results on the path manager has returned
HasReturned == call.fn = "get_results"

\* C30: get_results on the same path aggregator is idempotent: after the
\* first call has returned, a later call makes no further pull, leaves
\* start_time, timed_out and the accepted paths unchanged and returns the
\* same result, also when the first call accepted no path.
C30_Original ==
    HasReturned =>
        /\ n_pulls = call.n_pulls
        /\ start_time = call.start_time
        /\ timed_out = call.timed_out
        /\ paths = call.result

\* a later call is idempotent when the first call accepted a path, and no
\* later call changes start_time
C30_IdempotentWithPaths ==
    HasReturned =>
        /\ start_time = call.start_time
        /\ call.result # <<>> =>
              /\ pc = "done"
              /\ n_pulls = call.n_pulls
              /\ timed_out = call.timed_out
              /\ paths = call.result

\* a second call made after a first call that returned a path
C30_SecondCallWithPaths ==
    /\ HasReturned
    /\ call.calls = 2
    /\ call.result # <<>>
    /\ pc = "done"

\* a second call that pulled again after a first call without a path
C30_PulledAgain ==
    /\ HasReturned
    /\ call.calls = 2
    /\ call.result = <<>>
    /\ n_pulls > call.n_pulls

\* a second call that flagged the result after an unflagged first call
C30_FlaggedLater ==
    /\ HasReturned
    /\ call.calls = 2
    /\ ~call.timed_out
    /\ timed_out
    /\ pc = "done"

(***************************************************************************)
(* Properties of the non-path aggregators (SpecAgg).                       *)
(***************************************************************************)
\* the aggregator runs and still has candidates or edges to handle
AggWorkLeft == ag.consumed < Len(ag.gen) \/ ag.todo # <<>>

\* a step of a running aggregator taken after its deadline has passed
StepPastDeadline ==
    /\ ag.pc \in {"loop", "edges"}
    /\ AggDeadlinePassed
    /\ ag' # ag

\* what such a step does when the deadline is honoured: nothing is added to
\* the entries and, if work was left, the run ends marked timed out
HonoursDeadline ==
    /\ ag'.entries = ag.entries
    /\ AggWorkLeft => (ag'.timed_out /\ ag'.pc = "done")

\* C5: every non-path aggregator (shared interactors, subgraph, multi
\* interactors) consumes its candidates until they are exhausted unless its
\* deadline passes first; once the deadline has passed it handles no further
\* candidate, sets timed_out and returns the entries built so far.
C5_Original ==
    [][StepPastDeadline => HonoursDeadline]_vars

\* C5 restricted to the shared interactors and subgraph aggregators, the two
\* whose loops test the deadline
C5_SharedSubgraph ==
    [][(ag.kind \in {"shared", "subgraph"} /\ StepPastDeadline)
          => HonoursDeadline]_vars

\* a shared interactors or subgraph run cut short by its deadline
C5_Witness ==
    /\ ag.kind \in {"shared", "subgraph"}
    /\ ag.pc = "done" /\ ag.timed_out
    /\ ag.entries # <<>> /\ ag.consumed < Len(ag.gen)

\* a multi interactors run that finished, not timed out, with entries, after
\* its deadline had passed
C5_MultiPastDeadline ==
    /\ ag.kind = "multi" /\ ag.pc = "done" /\ ~ag.timed_out
    /\ AggDeadlinePassed /\ ag.entries # <<>>

\* the start of the first manager that ran in this handle_query
FirstStart ==
    CHOOSE t \in 0..MaxTime :
        /\ \E m \in ManagerNames : hq.mgr[m].start_time = Some(t)
        /\ \A m \in ManagerNames :
              HasRun(m) => TheVal(hq.mgr[m].start_time) >= t

\* C6: each aggregator measures elapsed time from its own start: the start
\* is set to the current time when its own get_results is called, it never
\* changes afterwards, and the aggregator times out only when the time
\* since its own start exceeds its own timeout.
C6_OwnClock ==
    [][\A m \in ManagerNames :
         LET a == hq.mgr[m]
             b == hq'.mgr[m]
         IN  /\ a.start_time # None => b.start_time = a.start_time
             /\ (a.start_time = None /\ b.start_time # None) =>
                   /\ b.start_time = Some(now)
                   /\ a.st = "new" /\ b.st = "loop"
             /\ (~a.timed_out /\ b.timed_out) =>
                   /\ a.start_time # None
                   /\ deadline_passed(manager_timeout(m, hq.user_timeout),
                                      now, TheVal(a.start_time))]_vars

\* the path search pulled and returned in time, nothing timed out, and yet
\* the time since the first aggregator started exceeds the timeout of the
\* request
C6_Witness ==
    /\ hq.mgr["path_query"].st = "done"
    /\ hq.mgr["path_query"].pulls > 0
    /\ ~hq.results.timed_out
    /\ hq.aux # <<>>
    /\ hq.user_timeout # 0
    /\ Elapsed(now, FirstStart) > hq.user_timeout
    /\ TheVal(hq.mgr["path_query"].start_time) > FirstStart

\* the internal nodes of highest degree of a path
MaxDegreeInternal(path, weight) ==
    {n \in Range(Internal(path)) :
        \A m \in Range(Internal(path)) : Degree(m, weight) <= Degree(n, weight)}

\* a pull that directly follows the acceptance of a path whose number is a
\* multiple of K
PullAfterKth ==
    /\ IsPull
    /\ cfg.fo.cull_best_node # None
    /\ last_pull # None /\ LastPull.outcome = "accept"
    /\ paths_built >= TheVal(cfg.fo.cull_best_node)
    /\ paths_built % TheVal(cfg.fo.cull_best_node) = 0

\* C7 (as stated): the pull after the Kth accepted path hands over exactly
\* one new excluded node, the highest-degree internal node of that path.
C7_Original ==
    [][PullAfterKth
        => \E n \in MaxDegreeInternal(TheVal(prev_path), weight_key(cfg.fo)) :
              /\ n \notin culled_nodes
              /\ culled_nodes' = culled_nodes \cup {n}
              /\ TheVal(last_pull').sent = Some(culled_nodes')]_vars

\* C7 (amended): that pull hands over at most one new excluded node: a
\* highest-degree internal node of the path just accepted when the path has
\* three nodes or more (new unless it was excluded before), and no new node
\* when the path has two nodes only.
C7_CullAfterKth ==
    [][PullAfterKth
        => /\ TheVal(last_pull').sent = Some(culled_nodes')
           /\ IF Len(TheVal(prev_path)) >= 3
              THEN \E n \in MaxDegreeInternal(TheVal(prev_path), weight_key(cfg.fo)) :
                      culled_nodes' = culled_nodes \cup {n}
              ELSE culled_nodes' = culled_nodes]_vars

C7_Witness ==
    /\ last_pull # None
    /\ cfg.fo.cull_best_node = Some(2)
    /\ LastPull.built = 2
    /\ Cardinality(LastPull.new) = 1
    /\ LastPull.sent = Some(culled_nodes)
    /\ Len(TheVal(LastPull.prev)) = 4

\* C8 (as stated): with a target path length set, every accepted path has
\* exactly that many nodes.
C8_Original ==
    cfg.fo.path_length # None
        => \A i \in 1..Len(accepted) :
              Len(accepted[i]) = TheVal(cfg.fo.path_length)

\* C8 (amended): with a target path length L set and the search not overall
\* weighted, a candidate of fewer than L nodes is skipped and not accepted, the
\* first candidate of more than L nodes ends the loop, and every accepted path
\* has exactly L nodes.
C8_PathLength ==
    /\ []((cfg.fo.path_length # None /\ ~cfg.fo.overall_weighted)
            => /\ \A i \in 1..Len(accepted) :
                    Len(accepted[i]) = TheVal(cfg.fo.path_length)
               /\ DOMAIN paths \subseteq cfg.fo.path_length)
    /\ [][(IsPull /\ cfg.fo.path_length # None /\ ~cfg.fo.overall_weighted
              /\ TheVal(last_pull').got # None)
            => LET got == TheVal(TheVal(last_pull').got)
                   L == TheVal(cfg.fo.path_length)
               IN  /\ Len(got) < L => (accepted' = accepted /\ paths' = paths
                                        /\ pc' = "loop")
                   /\ Len(got) > L => (accepted' = accepted /\ paths' = paths
                                        /\ pc' = "done")]_vars

C8_Witness ==
    /\ pc = "done"
    /\ cfg.fo.path_length = Some(3) /\ ~cfg.fo.overall_weighted
    /\ last_pull # None /\ LastPull.outcome = "break"
    /\ Len(accepted) = 1 /\ n_pulls = 3

\* number of Path objects in the result
RECURSIVE CountPaths(_)
CountPaths(D) ==
    IF D = {} THEN 0
    ELSE LET n == CHOOSE k \in D : TRUE IN Len(paths[n]) + CountPaths(D \ {n})

\* C9: the number of accepted paths never exceeds max_paths; once max_paths
\* paths are accepted the generator is not pulled again; a candidate that is
\* skipped or discarded does not count.
C9_MaxPaths ==
    /\ [](/\ Len(accepted) <= cfg.fo.max_paths
          /\ CountPaths(DOMAIN paths) = Len(accepted)
          /\ pc \in {"loop", "done", "error"} => paths_built = Len(accepted))
    /\ [][Len(accepted) >= cfg.fo.max_paths => ~IsPull]_vars
    /\ [][(IsPull /\ TheVal(last_pull').outcome \in {"skip", "discard"})
            => (paths_built' = paths_built /\ accepted' = accepted)]_vars

C9_Witness ==
    /\ pc = "done"
    /\ cfg.fo.max_paths = 3
    /\ Len(accepted) = 3
    /\ ~timed_out

\* C10: every Path of the result has one edge less than nodes, edge_data[i]
\* is the edge from path[i] to path[i+1], and it has two nodes at least.
C10_PathShape ==
    \A p \in ResultPaths :
        /\ Len(p.path) >= 2
        /\ Len(p.edge_data) = Len(p.path) - 1
        /\ \A i \in 1..Len(p.edge_data) :
              /\ p.edge_data[i].edge = <<p.path[i], p.path[i + 1]>>
              /\ <<p.path[i].name, p.path[i + 1].name>> \in EdgeSet

C10_Witness ==
    /\ cfg.reverse
    /\ \E p \in ResultPaths : Len(p.path) = 4
    /\ n_pulls >= 3
    /\ last_pull # None /\ LastPull.outcome = "discard"
====
